---- MODULE Spec2Model ----
(***************************************************************************)
(* A model of hyper_fetch: the cache store (services/cache.rs), the job    *)
(* aggregator and its two fetchers (services/job_service.rs), the video    *)
(* fetcher (services/youtube_service.rs) and the cache management routes   *)
(* (handlers/api.rs).                                                      *)
(*                                                                         *)
(* A Rust string is a TLA+ string, that is a sequence of characters, read  *)
(* with Len, SubSeq and \o only, so that case folding, trimming, prefix    *)
(* stripping and substring search are computed as the code computes them.  *)
(***************************************************************************)
EXTENDS Integers, Sequences, FiniteSets, TLC

(***************************************************************************)
(* Option<T>                                                               *)
(***************************************************************************)
None == [some |-> FALSE]

Some(x) == [some |-> TRUE, val |-> x]

(***************************************************************************)
(* str                                                                     *)
(***************************************************************************)
char_at(s, i) == SubSeq(s, i, i)

UpperCase == "ABCDEFGHIJKLMNOPQRSTUVWXYZ"

LowerCase == "abcdefghijklmnopqrstuvwxyz"

Digits == "0123456789"

\* The 1-based place of character c in string s, 0 when it is not there
index_in(s, c) ==
    IF \E i \in 1..Len(s) : char_at(s, i) = c
    THEN CHOOSE i \in 1..Len(s) : char_at(s, i) = c
    ELSE 0

\* char::to_lowercase, on ASCII
char_to_lowercase(c) ==
    IF index_in(UpperCase, c) > 0 THEN char_at(LowerCase, index_in(UpperCase, c)) ELSE c

\* str::to_lowercase
RECURSIVE to_lowercase(_)
to_lowercase(s) ==
    IF s = "" THEN ""
    ELSE to_lowercase(SubSeq(s, 1, Len(s) - 1)) \o char_to_lowercase(char_at(s, Len(s)))

\* char::is_whitespace, on the characters the model's inputs use
is_whitespace(c) == c = " "

\* str::starts_with
starts_with(s, p) == Len(p) <= Len(s) /\ SubSeq(s, 1, Len(p)) = p

\* str::trim_start_matches(pat): the prefix is removed as long as it matches
RECURSIVE trim_start_matches(_, _)
trim_start_matches(s, p) ==
    IF p # "" /\ starts_with(s, p)
    THEN trim_start_matches(SubSeq(s, Len(p) + 1, Len(s)), p)
    ELSE s

RECURSIVE trim_start(_)
trim_start(s) ==
    IF s # "" /\ is_whitespace(char_at(s, 1)) THEN trim_start(SubSeq(s, 2, Len(s))) ELSE s

RECURSIVE trim_end(_)
trim_end(s) ==
    IF s # "" /\ is_whitespace(char_at(s, Len(s)))
    THEN trim_end(SubSeq(s, 1, Len(s) - 1))
    ELSE s

\* str::trim
trim(s) == trim_end(trim_start(s))

\* str::replace(pat, to): every non-overlapping occurrence, left to right
RECURSIVE replace(_, _, _)
replace(s, pat, to) ==
    IF s = "" THEN ""
    ELSE IF starts_with(s, pat) THEN to \o replace(SubSeq(s, Len(pat) + 1, Len(s)), pat, to)
    ELSE char_at(s, 1) \o replace(SubSeq(s, 2, Len(s)), pat, to)

\* str::contains(&str)
contains(s, sub) ==
    \E i \in 0..(Len(s) - Len(sub)) : SubSeq(s, i + 1, i + Len(sub)) = sub

\* Display for u32
RECURSIVE u32_to_string(_)
u32_to_string(n) ==
    IF n < 10 THEN char_at(Digits, n + 1)
    ELSE u32_to_string(n \div 10) \o char_at(Digits, (n % 10) + 1)

\* Display for bool
bool_to_string(b) == IF b THEN "true" ELSE "false"

(***************************************************************************)
(* Query normalisation and the cache key (handle_job_scraper, first part)  *)
(***************************************************************************)
is_trending(query) ==
    \/ starts_with(to_lowercase(query), "trending:")
    \/ starts_with(to_lowercase(query), "trending ")

clean_query(query) ==
    IF is_trending(query)
    THEN IF starts_with(to_lowercase(query), "trending:")
         THEN trim(trim_start_matches(query, "trending:"))
         ELSE trim(trim_start_matches(query, "trending "))
    ELSE query

\* Option<bool>::unwrap_or(false)
remote_flag(remote_only) == IF remote_only.some THEN remote_only.val ELSE FALSE

\* Option<&str>::unwrap_or("")
unwrap_or_empty(o) == IF o.some THEN o.val ELSE ""

\* format!("jobs_{}_{}_{}_{}_{}", ...)
cache_key(query, limit, location, remote_only, job_type) ==
    "jobs_"
        \o replace(to_lowercase(clean_query(query)), " ", "_") \o "_"
        \o u32_to_string(limit) \o "_"
        \o replace(to_lowercase(location), " ", "_") \o "_"
        \o bool_to_string(remote_flag(remote_only)) \o "_"
        \o replace(to_lowercase(unwrap_or_empty(job_type)), " ", "_")

(***************************************************************************)
(* The cache store (services/cache.rs).  The store is a function from the  *)
(* keys present to entries; every operation runs under the one lock, so    *)
(* each is one atomic step of its caller.                                  *)
(***************************************************************************)
CACHE_DURATION == 4 * 60 * 60

\* serde_json::Value of one Option field: None is null
opt_to_value(o) == IF o.some THEN [null |-> FALSE, v |-> o.val] ELSE [null |-> TRUE]

opt_from_value(j) == IF j.null THEN None ELSE Some(j.v)

OptionFields == {"salary_min", "salary_max", "date_posted", "job_type", "employer_logo"}

\* serde_json::to_value(&Vec<Job>): an array of objects
to_value(jobs) ==
    [i \in 1..Len(jobs) |->
        [f \in DOMAIN jobs[i] |->
            IF f \in OptionFields THEN opt_to_value(jobs[i][f]) ELSE jobs[i][f]]]

\* serde_json::from_value::<Vec<Job>>
from_value(data) ==
    [i \in 1..Len(data) |->
        [f \in DOMAIN data[i] |->
            IF f \in OptionFields THEN opt_from_value(data[i][f]) ELSE data[i][f]]]

\* The outcome of a call: it returned a value, or the thread panicked
Returned(x) == [panic |-> FALSE, ret |-> x]

Panicked == [panic |-> TRUE]

\* now - entry.timestamp < CACHE_DURATION on u64.  When now < timestamp the
\* subtraction overflows: with overflow checks the thread panics; without,
\* the difference wraps to 2^64 - (timestamp - now), which is not below
\* CACHE_DURATION for any pair of clock readings in seconds since the epoch.
\* get_cache with the bound of the lifetime included, against which
\* C1_CacheTtl is tested
get_cache_inclusive(store, t, checks, key) ==
    IF key \in DOMAIN store
    THEN IF t < store[key].timestamp
         THEN IF checks THEN Panicked ELSE Returned(None)
         ELSE IF t - store[key].timestamp <= CACHE_DURATION
              THEN Returned(Some(from_value(store[key].data)))
              ELSE Returned(None)
    ELSE Returned(None)

get_cache(store, t, checks, key) ==
    IF key \in DOMAIN store
    THEN IF t < store[key].timestamp
         THEN IF checks THEN Panicked ELSE Returned(None)
         ELSE IF t - store[key].timestamp < CACHE_DURATION
              THEN Returned(Some(from_value(store[key].data)))
              ELSE Returned(None)
    ELSE Returned(None)

\* The same with the new list put after the list already stored, against
\* which C26_NoCoalescing is tested
set_cache_appending(store, t, key, jobs) ==
    [k \in DOMAIN store \cup {key} |->
        IF k = key
        THEN [data |-> IF key \in DOMAIN store THEN store[key].data \o to_value(jobs)
                       ELSE to_value(jobs),
              timestamp |-> t]
        ELSE store[k]]

set_cache(store, t, key, jobs) ==
    [k \in DOMAIN store \cup {key} |->
        IF k = key THEN [data |-> to_value(jobs), timestamp |-> t] ELSE store[k]]

clear_cache(store) == <<>>

\* remove_cache matching the key whatever its letter case, against which
\* C9_CacheManagement is tested
remove_cache_ignoring_case(store, key) ==
    [k \in {j \in DOMAIN store : to_lowercase(j) # to_lowercase(key)} |-> store[k]]

remove_cache(store, key) == [k \in DOMAIN store \ {key} |-> store[k]]

(***************************************************************************)
(* Regex primitives, as far as the patterns of job_service.rs need them.   *)
(* A position i in 0..Len(text) lies between characters i and i + 1.       *)
(***************************************************************************)
is_digit(c) == index_in(Digits, c) > 0

\* \w
is_word_char(c) ==
    is_digit(c) \/ c = "_" \/ index_in(UpperCase, c) > 0 \/ index_in(LowerCase, c) > 0

\* \b
word_boundary(text, i) ==
    (i >= 1 /\ is_word_char(char_at(text, i)))
        # (i < Len(text) /\ is_word_char(char_at(text, i + 1)))

match_at(text, i, lit) ==
    i + Len(lit) <= Len(text) /\ SubSeq(text, i + 1, i + Len(lit)) = lit

\* \blit\b matches with its first character after position i
bounded_match_at(text, i, lit) ==
    match_at(text, i, lit) /\ word_boundary(text, i) /\ word_boundary(text, i + Len(lit))

\* Some position of text matches \blit\b
bounded_match(text, lit) == \E i \in 0..Len(text) : bounded_match_at(text, i, lit)

\* \s* from position i: the position after the run of whitespace
RECURSIVE skip_whitespace(_, _)
skip_whitespace(text, i) ==
    IF i < Len(text) /\ is_whitespace(char_at(text, i + 1))
    THEN skip_whitespace(text, i + 1)
    ELSE i

\* \d+ from position i: the position after the run of digits (i itself: no digit)
RECURSIVE skip_digits(_, _)
skip_digits(text, i) ==
    IF i < Len(text) /\ is_digit(char_at(text, i + 1)) THEN skip_digits(text, i + 1) ELSE i

\* (?:,\d+)* from position i
RECURSIVE skip_groups(_, _)
skip_groups(text, i) ==
    IF match_at(text, i, ",") /\ skip_digits(text, i + 1) > i + 1
    THEN skip_groups(text, skip_digits(text, i + 1))
    ELSE i

\* \d+(?:,\d+)*(?:\.\d+)? from position i: the position after the longest
\* match, or i when no digit stands at i.  No shorter match lets any of the
\* patterns below continue, since what follows the number in them starts
\* with none of a digit, "," and ".".
number_end(text, i) ==
    LET d == skip_digits(text, i)
        g == skip_groups(text, d)
    IN  IF d = i THEN i
        ELSE IF match_at(text, g, ".") /\ skip_digits(text, g + 1) > g + 1
             THEN skip_digits(text, g + 1)
             ELSE g

\* (?:-|\s*to\s*) from position w: the position after it, or w when neither stands there
separator_end(text, w) ==
    IF match_at(text, w, "-") THEN w + 1
    ELSE IF match_at(text, w, "to") THEN skip_whitespace(text, w + 2)
    ELSE w

\* \$? from position a
dollar_end(text, a) == IF match_at(text, a, "$") THEN a + 1 ELSE a

\* The captures of a range whose first number is text[i + 2 .. e1], whose
\* separator starts at w and whose second number starts at b
range_found(text, i, e1, w, b) ==
    IF e1 = i + 1 \/ separator_end(text, w) = w \/ number_end(text, b) = b THEN None
    ELSE Some([min |-> SubSeq(text, i + 2, e1),
               max |-> SubSeq(text, b + 1, number_end(text, b))])

range_from_separator(text, i, e1, w) ==
    range_found(text, i, e1, w,
                dollar_end(text, skip_whitespace(text, separator_end(text, w))))

range_from_number(text, i, e1) ==
    range_from_separator(text, i, e1, skip_whitespace(text, e1))

\* \$(number)\s*(?:-|\s*to\s*)\s*\$?(number) with its "$" after position i:
\* the two captures, or None
range_match_at(text, i) ==
    IF ~match_at(text, i, "$") THEN None
    ELSE range_from_number(text, i, number_end(text, i + 1))

\* Regex::captures: the leftmost match
range_captures(text) ==
    LET hits == {i \in 0..Len(text) - 1 : range_match_at(text, i).some}
    IN  IF hits = {} THEN None
        ELSE range_match_at(text, CHOOSE i \in hits : \A j \in hits : i <= j)

\* \$(number): the capture of the leftmost match, or None
single_captures(text) ==
    LET hits == {i \in 0..Len(text) - 1 :
                    match_at(text, i, "$") /\ number_end(text, i + 1) > i + 1}
    IN  IF hits = {} THEN None
        ELSE LET i == CHOOSE i \in hits : \A j \in hits : i <= j
             IN  Some(SubSeq(text, i + 2, number_end(text, i + 1)))

(***************************************************************************)
(* Classification engine: salary (parse_salary)                            *)
(***************************************************************************)
RECURSIVE digits_to_nat(_)
digits_to_nat(ds) ==
    IF ds = "" THEN 0
    ELSE 10 * digits_to_nat(SubSeq(ds, 1, Len(ds) - 1))
            + (index_in(Digits, char_at(ds, Len(ds))) - 1)

RECURSIVE strip_trailing_zeros(_)
strip_trailing_zeros(ds) ==
    IF ds # "" /\ char_at(ds, Len(ds)) = "0"
    THEN strip_trailing_zeros(SubSeq(ds, 1, Len(ds) - 1))
    ELSE ds

\* str::parse::<f64>().ok() on digits with an optional fraction.  The value
\* is kept exactly, as its whole part and its fraction digits.
parse_f64(s) ==
    LET dot == index_in(s, ".")
    IN  IF dot = 0 THEN Some([whole |-> digits_to_nat(s), frac |-> ""])
        ELSE Some([whole |-> digits_to_nat(SubSeq(s, 1, dot - 1)),
                   frac |-> strip_trailing_zeros(SubSeq(s, dot + 1, Len(s)))])

\* The same with the single amount tried first, against which
\* C16_SalaryParsing is tested
salary_bounds_single_first(range, single) ==
    IF single.some
    THEN [min |-> parse_f64(replace(single.val, ",", "")),
          max |-> parse_f64(replace(single.val, ",", ""))]
    ELSE IF range.some
    THEN [min |-> parse_f64(replace(range.val.min, ",", "")),
          max |-> parse_f64(replace(range.val.max, ",", ""))]
    ELSE [min |-> None, max |-> None]

\* The bounds parse_salary returns for what its two patterns captured
salary_bounds(range, single) ==
    IF range.some
    THEN [min |-> parse_f64(replace(range.val.min, ",", "")),
          max |-> parse_f64(replace(range.val.max, ",", ""))]
    ELSE IF single.some
    THEN [min |-> parse_f64(replace(single.val, ",", "")),
          max |-> parse_f64(replace(single.val, ",", ""))]
    ELSE [min |-> None, max |-> None]

parse_salary(salary_text) ==
    IF salary_text = "" THEN [min |-> None, max |-> None]
    ELSE salary_bounds(
             range_captures(replace(to_lowercase(salary_text), " a year", "")),
             single_captures(replace(to_lowercase(salary_text), " a year", "")))

(***************************************************************************)
(* Classification engine: job type (determine_job_type, extract_job_type)  *)
(***************************************************************************)
\* [\d+]\s*years'? experience
years_experience_at(text, i) ==
    /\ i < Len(text)
    /\ (is_digit(char_at(text, i + 1)) \/ char_at(text, i + 1) = "+")
    /\ LET y == skip_whitespace(text, i + 1)
       IN  match_at(text, y, "years experience") \/ match_at(text, y, "years' experience")

re_full_time(text) ==
    \/ bounded_match(text, "fulltime")
    \/ bounded_match(text, "full-time")
    \/ bounded_match(text, "full time")
    \/ contains(text, "fully remote position")
    \/ contains(text, "competitive salary")
    \/ contains(text, "benefits package")
    \/ \E i \in 0..Len(text) : years_experience_at(text, i)

re_part_time(text) ==
    \/ bounded_match(text, "parttime")
    \/ bounded_match(text, "part-time")
    \/ bounded_match(text, "part time")

re_contract(text) == bounded_match(text, "contract") \/ bounded_match(text, "contractor")

\* re_intern.find_iter: the start positions of the matches of \bintern(?:ship)?\b.
\* Two matches cannot overlap, so every matching position is a match found.
re_intern_starts(text) ==
    {i \in 0..Len(text) :
        bounded_match_at(text, i, "intern") \/ bounded_match_at(text, i, "internship")}

re_temp(text) == bounded_match(text, "temporary") \/ bounded_match(text, "temp")

re_freelance(text) == bounded_match(text, "freelance")

\* The negation window of has_intern: the 20 characters before the match
intern_prefix(text, start) ==
    SubSeq(text, (IF start >= 20 THEN start - 20 ELSE 0) + 1, start)

has_intern(text) ==
    \E start \in re_intern_starts(text) :
        ~contains(intern_prefix(text, start), "not hiring associate/")

extract_job_type(raw) ==
    LET text == to_lowercase(raw)
    IN  IF re_full_time(text) THEN Some("Full-time")
        ELSE IF re_part_time(text) THEN Some("Part-time")
        ELSE IF re_contract(text) THEN Some("Contract")
        ELSE IF has_intern(text) THEN Some("Internship")
        ELSE IF re_temp(text) THEN Some("Temporary")
        ELSE IF re_freelance(text) THEN Some("Freelance")
        ELSE None

\* Some tag, lower-cased, is one of the two spellings
any_tag(tags, a, b) ==
    \E i \in 1..Len(tags) : to_lowercase(tags[i]) = a \/ to_lowercase(tags[i]) = b

\* job.get("description").and_then(as_str).unwrap_or("")
description_of(job) == unwrap_or_empty(job.description)

\* The last steps of determine_job_type: the type the description gave, or
\* Full-time on a professional indicator
inferred_job_type(job_type, lower) ==
    IF job_type.some THEN job_type
    ELSE IF \/ contains(lower, "years'? experience")
            \/ contains(lower, "senior")
            \/ contains(lower, "professional")
            \/ contains(lower, "collaborative team")
         THEN Some("Full-time")
         ELSE job_type

determine_job_type(job) ==
    IF job.tags.some /\ any_tag(job.tags.val, "full_time", "full-time")
    THEN Some("Full-time")
    ELSE IF job.tags.some /\ any_tag(job.tags.val, "contract", "contractor")
    THEN Some("Contract")
    ELSE IF job.tags.some /\ any_tag(job.tags.val, "part_time", "part-time")
    THEN Some("Part-time")
    ELSE IF job.tags.some /\ any_tag(job.tags.val, "internship", "intern")
    THEN Some("Internship")
    ELSE inferred_job_type(extract_job_type(description_of(job)),
                           to_lowercase(description_of(job)))

(***************************************************************************)
(* The job fetchers.  An upstream record is a JSON object read through     *)
(* get(..).and_then(as_str): each field is Some(string), or None when it   *)
(* is missing or no string; tags is Some(sequence of strings) or None.     *)
(* A response is Err (network failure, timeout, non-success status, a body *)
(* that is no JSON array) or Ok(array), the array's first element being    *)
(* the sentinel.                                                           *)
(***************************************************************************)
Ok(x) == [ok |-> TRUE, val |-> x]

Err == [ok |-> FALSE]

\* str::split_whitespace
RECURSIVE split_whitespace(_)
split_whitespace(s) ==
    LET t == trim_start(s)
        n == IF index_in(t, " ") = 0 THEN Len(t) ELSE index_in(t, " ") - 1
    IN  IF t = "" THEN <<>>
        ELSE <<SubSeq(t, 1, n)>> \o split_whitespace(SubSeq(t, n + 1, Len(t)))

filler_words == {"jobs", "trending", "remote", "work", "career", "opportunity"}

is_meaningful(part) == part \notin filler_words /\ Len(part) > 2

is_not_filler(part) == part \notin filler_words

\* n as u32, and the u32 a wrapped usize difference casts to: 2^32 - n
U32(n) == [wrapped |-> FALSE, n |-> n]

Wrapped(n) == [wrapped |-> TRUE, n |-> n]

\* jobs.len() >= limit as usize.  A wrapped limit, 2^32 - n with n at most
\* the length of one upstream array, is above the length of any list.
at_limit(len, limit) == IF limit.wrapped THEN FALSE ELSE len >= limit.n

\* The same with every word of the query required in both modes, against
\* which C19_GeneralMatchingOfTokens is tested
general_matches_all(job, query, trending) ==
    LET position == to_lowercase(unwrap_or_empty(job.position))
        description == to_lowercase(description_of(job))
        query_parts == split_whitespace(to_lowercase(query))
    IN  /\ query_parts # <<>>
        /\ \A i \in 1..Len(query_parts) :
              contains(position, query_parts[i]) \/ contains(description, query_parts[i])

\* position_matches of fetch_remoteok_jobs
general_matches(job, query, trending) ==
    LET position == to_lowercase(unwrap_or_empty(job.position))
        description == to_lowercase(description_of(job))
        query_parts == split_whitespace(to_lowercase(query))
        meaningful_parts == SelectSeq(query_parts, is_meaningful)
        fallback_parts == SelectSeq(query_parts, is_not_filler)
        found(part) == contains(position, part) \/ contains(description, part)
    IN  IF trending
        THEN IF meaningful_parts = <<>>
             THEN /\ fallback_parts # <<>>
                  /\ \E i \in 1..Len(fallback_parts) : found(fallback_parts[i])
             ELSE \E i \in 1..Len(meaningful_parts) : found(meaningful_parts[i])
        ELSE /\ query_parts # <<>>
             /\ \A i \in 1..Len(query_parts) : found(query_parts[i])

\* The same with a record that has no classification let through, against
\* which C21_JobTypeFilter is tested
type_matches_or_unclassified(determined, job_type) ==
    IF ~job_type.some THEN TRUE
    ELSE LET jt_lower == to_lowercase(job_type.val)
         IN  \/ ~determined.some
             \/ LET t == to_lowercase(determined.val)
                IN  \/ contains(t, jt_lower)
                    \/ (jt_lower = "full-time" /\ contains(t, "full"))
                    \/ (jt_lower = "part-time" /\ contains(t, "part"))
                    \/ (jt_lower = "contract"
                            /\ (contains(t, "contract") \/ contains(t, "freelance")))

\* type_matches: the job_type filter of both fetchers
type_matches(determined, job_type) ==
    IF ~job_type.some THEN TRUE
    ELSE LET jt_lower == to_lowercase(job_type.val)
         IN  /\ determined.some
             /\ LET t == to_lowercase(determined.val)
                IN  \/ contains(t, jt_lower)
                    \/ (jt_lower = "full-time" /\ contains(t, "full"))
                    \/ (jt_lower = "part-time" /\ contains(t, "part"))
                    \/ (jt_lower = "contract"
                            /\ (contains(t, "contract") \/ contains(t, "freelance")))

\* url and logo: a relative path gets the provider's base
absolute(o, base) ==
    IF ~o.some THEN None
    ELSE IF starts_with(o.val, "http") THEN o ELSE Some(base \o o.val)

\* The salary text of fetch_remoteok_jobs: the salary field, or, when it is
\* empty, the range `caps` found in the lower-cased description
salary_text_or(salary_text, caps) ==
    IF salary_text = "" /\ caps.some
    THEN "$" \o caps.val.min \o " - $" \o caps.val.max
    ELSE salary_text

general_salary_text(job) ==
    salary_text_or(unwrap_or_empty(job.salary),
                   range_captures(to_lowercase(description_of(job))))

\* Job { .. } of both fetchers
new_job(job, id, location, salary, job_type) ==
    [id |-> id,
     title |-> unwrap_or_empty(job.position),
     employer_name |-> unwrap_or_empty(job.company),
     location |-> location,
     description |-> description_of(job),
     apply_url |-> unwrap_or_empty(absolute(job.url, "https://remoteok.com")),
     salary_min |-> salary.min,
     salary_max |-> salary.max,
     date_posted |-> job.date,
     remote |-> TRUE,
     job_type |-> job_type,
     employer_logo |-> absolute(job.logo, "https://remoteok.com/assets/img/jobs/")]

\* The Job that fetch_remoteok_jobs pushes, n being jobs.len() before the push
general_job(job, n) ==
    new_job(job,
            IF job.id.some THEN job.id.val ELSE "remoteok_" \o u32_to_string(n),
            "Remote",
            parse_salary(general_salary_text(job)),
            determine_job_type(job))

\* The loop of fetch_remoteok_jobs from element i on: the filters, the push,
\* then the test of the limit
RECURSIVE general_loop(_, _, _, _, _, _, _)
RECURSIVE general_pushed(_, _, _, _, _, _, _)
general_pushed(jobs_data, i, pushed, query, limit, job_type, trending) ==
    IF at_limit(Len(pushed), limit) THEN pushed
    ELSE general_loop(jobs_data, i + 1, pushed, query, limit, job_type, trending)

general_loop(jobs_data, i, jobs, query, limit, job_type, trending) ==
    IF i > Len(jobs_data) THEN jobs
    ELSE IF ~general_matches(jobs_data[i], query, trending)
            \/ ~type_matches(determine_job_type(jobs_data[i]), job_type)
    THEN general_loop(jobs_data, i + 1, jobs, query, limit, job_type, trending)
    ELSE general_pushed(jobs_data, i, Append(jobs, general_job(jobs_data[i], Len(jobs))),
                        query, limit, job_type, trending)

\* fetch_remoteok_jobs on the response it got; skip(1) drops the sentinel
fetch_remoteok_jobs(response, query, limit, job_type, trending) ==
    IF ~response.ok THEN Err
    ELSE Ok(general_loop(response.val, 2, <<>>, query, limit, job_type, trending))

\* location_lower.split(',').map(trim).first()
city_of(location_lower) ==
    trim(IF index_in(location_lower, ",") = 0 THEN location_lower
         ELSE SubSeq(location_lower, 1, index_in(location_lower, ",") - 1))

\* The same with one word of the query enough, against which
\* C22_LocationFetch is tested
location_matches_any_token(job, query, location) ==
    LET position == to_lowercase(unwrap_or_empty(job.position))
        description == to_lowercase(description_of(job))
        query_parts == split_whitespace(to_lowercase(query))
        location_lower == to_lowercase(location)
        city == city_of(location_lower)
    IN  /\ \E i \in 1..Len(query_parts) : contains(position, query_parts[i])
        /\ \/ contains(description, city)
           \/ contains(description, location_lower)
           \/ contains(position, city)
           \/ contains(position, location_lower)

\* position_matches and location_mentioned of fetch_remoteok_jobs_with_location
location_matches(job, query, location) ==
    LET position == to_lowercase(unwrap_or_empty(job.position))
        description == to_lowercase(description_of(job))
        query_parts == split_whitespace(to_lowercase(query))
        location_lower == to_lowercase(location)
        city == city_of(location_lower)
    IN  /\ \A i \in 1..Len(query_parts) : contains(position, query_parts[i])
        /\ \/ contains(description, city)
           \/ contains(description, location_lower)
           \/ contains(position, city)
           \/ contains(position, location_lower)

\* The salary bounds of fetch_remoteok_jobs_with_location: the salary field only
location_salary(job) ==
    IF job.salary.some THEN parse_salary(job.salary.val) ELSE [min |-> None, max |-> None]

\* The Job that fetch_remoteok_jobs_with_location pushes
location_job(job, n, location) ==
    new_job(job,
            IF job.id.some THEN job.id.val ELSE "remoteok_loc_" \o u32_to_string(n),
            location \o " (Remote)",
            location_salary(job),
            determine_job_type(job))

RECURSIVE location_loop(_, _, _, _, _, _, _)
RECURSIVE location_pushed(_, _, _, _, _, _, _)
location_pushed(jobs_data, i, pushed, query, limit, location, job_type) ==
    IF at_limit(Len(pushed), limit) THEN pushed
    ELSE location_loop(jobs_data, i + 1, pushed, query, limit, location, job_type)

location_loop(jobs_data, i, jobs, query, limit, location, job_type) ==
    IF i > Len(jobs_data) THEN jobs
    ELSE IF ~location_matches(jobs_data[i], query, location)
            \/ ~type_matches(determine_job_type(jobs_data[i]), job_type)
    THEN location_loop(jobs_data, i + 1, jobs, query, limit, location, job_type)
    ELSE location_pushed(jobs_data, i,
                         Append(jobs, location_job(jobs_data[i], Len(jobs), location)),
                         query, limit, location, job_type)

fetch_remoteok_jobs_with_location(response, query, limit, location, job_type) ==
    IF ~response.ok THEN Err
    ELSE Ok(location_loop(response.val, 2, <<>>, query, U32(limit), location, job_type))

(***************************************************************************)
(* The trending sort of handle_job_scraper                                 *)
(***************************************************************************)
\* Printable ASCII in code order, the order str::cmp compares bytes in
\* (without the double quote, the backslash and the backquote)
Ascii ==
    " !#$%&'" \o "()" \o "*+,-./" \o Digits \o ":;<=>?@" \o UpperCase
        \o "[]^_" \o LowerCase \o "{|}~"

\* str::cmp: -1, 0 or 1
RECURSIVE str_cmp(_, _)
str_cmp(a, b) ==
    IF a = "" /\ b = "" THEN 0
    ELSE IF a = "" THEN -1
    ELSE IF b = "" THEN 1
    ELSE IF index_in(Ascii, char_at(a, 1)) < index_in(Ascii, char_at(b, 1)) THEN -1
    ELSE IF index_in(Ascii, char_at(a, 1)) > index_in(Ascii, char_at(b, 1)) THEN 1
    ELSE str_cmp(SubSeq(a, 2, Len(a)), SubSeq(b, 2, Len(b)))

all_digits(s) == \A i \in 1..Len(s) : is_digit(char_at(s, i))

is_leap(y) == (y % 4 = 0 /\ y % 100 # 0) \/ y % 400 = 0

days_in_month(y, m) ==
    IF m = 2 THEN (IF is_leap(y) THEN 29 ELSE 28)
    ELSE IF m \in {4, 6, 9, 11} THEN 30 ELSE 31

\* Days from 1970-01-01 to the first day of year y, for y >= 1970
RECURSIVE days_before_year(_)
days_before_year(y) ==
    IF y <= 1970 THEN 0
    ELSE days_before_year(y - 1) + (IF is_leap(y - 1) THEN 366 ELSE 365)

RECURSIVE days_before_month(_, _)
days_before_month(y, m) ==
    IF m <= 1 THEN 0 ELSE days_before_month(y, m - 1) + days_in_month(y, m - 1)

\* DateTime::parse_from_rfc3339(d).ok().map(with_timezone(Utc)), on the
\* forms YYYY-MM-DDTHH:MM:SS followed by Z or by +HH:MM or -HH:MM, years
\* 1970 to 2037: the instant in seconds since the epoch, or None.
parse_from_rfc3339(d) ==
    LET num(a, b) == digits_to_nat(SubSeq(d, a, b))
        shaped ==
            /\ Len(d) \in {20, 25}
            /\ all_digits(SubSeq(d, 1, 4)) /\ char_at(d, 5) = "-"
            /\ all_digits(SubSeq(d, 6, 7)) /\ char_at(d, 8) = "-"
            /\ all_digits(SubSeq(d, 9, 10)) /\ char_at(d, 11) = "T"
            /\ all_digits(SubSeq(d, 12, 13)) /\ char_at(d, 14) = ":"
            /\ all_digits(SubSeq(d, 15, 16)) /\ char_at(d, 17) = ":"
            /\ all_digits(SubSeq(d, 18, 19))
            /\ IF Len(d) = 20 THEN char_at(d, 20) = "Z"
               ELSE /\ char_at(d, 20) \in {"+", "-"}
                    /\ all_digits(SubSeq(d, 21, 22)) /\ char_at(d, 23) = ":"
                    /\ all_digits(SubSeq(d, 24, 25))
        offset ==
            IF Len(d) = 20 THEN 0
            ELSE (IF char_at(d, 20) = "-" THEN -1 ELSE 1)
                    * (num(21, 22) * 3600 + num(24, 25) * 60)
    IN  IF /\ shaped
           /\ num(1, 4) \in 1970..2037
           /\ num(6, 7) \in 1..12
           /\ num(9, 10) \in 1..days_in_month(num(1, 4), num(6, 7))
           /\ num(12, 13) < 24 /\ num(15, 16) < 60 /\ num(18, 19) < 60
           /\ (Len(d) = 25 => num(21, 22) < 24 /\ num(24, 25) < 60)
        THEN Some((days_before_year(num(1, 4)) + days_before_month(num(1, 4), num(6, 7))
                      + num(9, 10) - 1) * 86400
                  + num(12, 13) * 3600 + num(15, 16) * 60 + num(18, 19) - offset)
        ELSE None

\* The date the sort pairs a job with
job_date(job) == IF job.date_posted.some THEN parse_from_rfc3339(job.date_posted.val) ELSE None

\* Option<DateTime>::cmp: None is below every Some
date_cmp(a, b) ==
    IF ~a.some /\ ~b.some THEN 0
    ELSE IF ~a.some THEN -1
    ELSE IF ~b.some THEN 1
    ELSE IF a.val < b.val THEN -1
    ELSE IF a.val > b.val THEN 1
    ELSE 0

\* The comparison without its second key, against which C13_TrendingSort is
\* tested
sorts_before_by_date(a, b) == date_cmp(job_date(b), job_date(a)) = -1

\* b.1.cmp(&a.1).then_with(|| a.0.title.cmp(&b.0.title)) is Less: a sorts before b
sorts_before(a, b) ==
    \/ date_cmp(job_date(b), job_date(a)) = -1
    \/ date_cmp(job_date(b), job_date(a)) = 0 /\ str_cmp(a.title, b.title) = -1

\* One job put into a sorted list, after every job it does not sort before
RECURSIVE insert_sorted(_, _)
insert_sorted(sorted, job) ==
    IF sorted = <<>> THEN <<job>>
    ELSE IF sorts_before(job, Head(sorted)) THEN <<job>> \o sorted
    ELSE <<Head(sorted)>> \o insert_sorted(Tail(sorted), job)

\* slice::sort_by: a stable sort
RECURSIVE sort_by(_)
sort_by(jobs) ==
    IF jobs = <<>> THEN <<>>
    ELSE insert_sorted(sort_by(SubSeq(jobs, 1, Len(jobs) - 1)), jobs[Len(jobs)])

(***************************************************************************)
(* handle_job_scraper, cut at its two await points.  A request is a record *)
(* [query, limit, location, remote_only, job_type].  Each segment below is *)
(* the code run without suspension, as a function of what it reads; it     *)
(* gives the handler's next position (pc), the store, the accumulated jobs,*)
(* the upstream requests issued so far and what the call returned.         *)
(***************************************************************************)
key_of(r) == cache_key(r.query, r.limit, r.location, r.remote_only, r.job_type)

\* Vec::truncate
truncate(list, n) == IF Len(list) > n THEN SubSeq(list, 1, n) ELSE list

\* limit as usize - jobs.len(), then as u32.  The difference underflows when
\* the location pass returned more than limit: with overflow checks the
\* thread panics; without, it wraps and the cast keeps 2^32 - (len - limit).
remaining(limit, len, checks) ==
    IF len <= limit THEN Returned(U32(limit - len))
    ELSE IF checks THEN Panicked
    ELSE Returned(Wrapped(len - limit))

\* The same relabelling made whatever the location pass found, against which
\* C12_LocationBackfill is tested
modified_remote_jobs_always(remote_jobs, location, jobs) ==
    IF location # ""
    THEN [i \in 1..Len(remote_jobs) |->
            [remote_jobs[i] EXCEPT
                !.location = "Remote (Worldwide, including " \o location \o ")"]]
    ELSE remote_jobs

\* The relabelling of the general results when the location pass found nothing
modified_remote_jobs(remote_jobs, location, jobs) ==
    IF location # "" /\ jobs = <<>>
    THEN [i \in 1..Len(remote_jobs) |->
            [remote_jobs[i] EXCEPT
                !.location = "Remote (Worldwide, including " \o location \o ")"]]
    ELSE remote_jobs

sorted_jobs(remote_jobs, trending) == IF trending THEN sort_by(remote_jobs) ELSE remote_jobs

\* The same with the write made whatever the list, against which
\* C8_WritePolicy is tested
finished_always_writes(store, t, r, out, issued) ==
    [pc |-> "done",
     cache |-> set_cache(store, t, key_of(r), out),
     jobs |-> out,
     upstream |-> issued,
     ret |-> Some(out),
     hit |-> FALSE,
     wrote |-> TRUE]

\* Lines 121 to 131: write the cache when the list is not empty, return it
finished(store, t, r, out, issued) ==
    [pc |-> "done",
     cache |-> IF out # <<>> THEN set_cache(store, t, key_of(r), out) ELSE store,
     jobs |-> out,
     upstream |-> issued,
     ret |-> Some(out),
     hit |-> FALSE,
     wrote |-> out # <<>>]

\* The same without the truncation, against which C29_CacheContent is tested
finish_untruncated(store, t, r, list, issued) == finished(store, t, r, list, issued)

\* Lines 119 to 131: truncate, then the above
finish(store, t, r, list, issued) ==
    finished(store, t, r, truncate(list, r.limit), issued)

\* Lines 79 to 81: the general fetch is awaited, or the call finishes
after_location(store, t, checks, r, jobs, issued) ==
    IF remote_flag(r.remote_only) \/ Len(jobs) < r.limit \/ is_trending(r.query)
    THEN IF remaining(r.limit, Len(jobs), checks).panic
         THEN [pc |-> "panicked", cache |-> store, jobs |-> jobs, upstream |-> issued,
               ret |-> None, hit |-> FALSE, wrote |-> FALSE]
         ELSE [pc |-> "general", cache |-> store, jobs |-> jobs,
               upstream |-> Append(issued, "general"), ret |-> None, hit |-> FALSE,
               wrote |-> FALSE]
    ELSE finish(store, t, r, jobs, issued)

\* The same without the cache lookup, against which C7_HitShortCircuit is
\* tested
begin_without_lookup(store, t, checks, r) ==
    IF r.location # ""
    THEN [pc |-> "location", cache |-> store, jobs |-> <<>>,
          upstream |-> <<"location">>, ret |-> None, hit |-> FALSE,
          wrote |-> FALSE]
    ELSE after_location(store, t, checks, r, <<>>, <<>>)

\* Lines 33 to 70: the cache lookup, then the first await or the finish
begin(store, t, checks, r) ==
    LET got == get_cache(store, t, checks, key_of(r))
    IN  IF got.panic
        THEN [pc |-> "panicked", cache |-> store, jobs |-> <<>>, upstream |-> <<>>,
              ret |-> None, hit |-> FALSE, wrote |-> FALSE]
        ELSE IF got.ret.some
        THEN [pc |-> "done", cache |-> store, jobs |-> got.ret.val, upstream |-> <<>>,
              ret |-> Some(got.ret.val), hit |-> TRUE, wrote |-> FALSE]
        ELSE IF r.location # ""
        THEN [pc |-> "location", cache |-> store, jobs |-> <<>>,
              upstream |-> <<"location">>, ret |-> None, hit |-> FALSE,
              wrote |-> FALSE]
        ELSE after_location(store, t, checks, r, <<>>, <<>>)

\* jobs.extend(..) of a fetch that succeeded; a failed fetch adds nothing
extended(jobs, got) == IF got.ok THEN jobs \o got.val ELSE jobs

\* The same with a failed location request sent once more, against which
\* C27_CallDiscipline is tested
location_response_retrying(store, t, checks, r, jobs, issued, response) ==
    IF ~response.ok /\ Len(issued) = 1
    THEN [pc |-> "location", cache |-> store, jobs |-> jobs,
          upstream |-> Append(issued, "location"), ret |-> None, hit |-> FALSE,
          wrote |-> FALSE]
    ELSE after_location(store, t, checks, r,
                        extended(jobs, fetch_remoteok_jobs_with_location(
                            response, clean_query(r.query), r.limit, r.location,
                            r.job_type)),
                        issued)

\* Lines 70 to 77, then on: the location response arrives
location_response(store, t, checks, r, jobs, issued, response) ==
    after_location(store, t, checks, r,
                   extended(jobs, fetch_remoteok_jobs_with_location(
                       response, clean_query(r.query), r.limit, r.location, r.job_type)),
                   issued)

\* The same with a failed general fetch discarding what the location pass
\* collected, against which C11_PhaseDegradation is tested
merged_or_nothing(jobs, got, location, trending) ==
    IF got.ok
    THEN jobs \o sorted_jobs(modified_remote_jobs(got.val, location, jobs), trending)
    ELSE <<>>

\* Lines 82 to 114: the general results relabelled, sorted, appended
merged(jobs, got, location, trending) ==
    IF got.ok
    THEN jobs \o sorted_jobs(modified_remote_jobs(got.val, location, jobs), trending)
    ELSE jobs

\* Lines 81 to 117, then on: the general response arrives
general_response(store, t, checks, r, jobs, issued, response) ==
    finish(store, t, r,
           merged(jobs,
                  fetch_remoteok_jobs(
                      response, clean_query(r.query),
                      remaining(r.limit, Len(jobs), checks).ret,
                      r.job_type, is_trending(r.query)),
                  r.location, is_trending(r.query)),
           issued)

\* handle_job_scraper from its first line to its return on an empty cache,
\* the location request answered by location_data and the general one by
\* general_data: the segments above, one after the other
resumed_location(checks, r, step, location_data) ==
    IF step.pc = "location"
    THEN location_response(<<>>, 0, checks, r, step.jobs, step.upstream, location_data)
    ELSE step

resumed_general(checks, r, step, general_data) ==
    IF step.pc = "general"
    THEN general_response(<<>>, 0, checks, r, step.jobs, step.upstream, general_data)
    ELSE step

handle_job_scraper(checks, r, location_data, general_data) ==
    resumed_general(checks, r,
                    resumed_location(checks, r, begin(<<>>, 0, checks, r), location_data),
                    general_data)

(***************************************************************************)
(* services/youtube_service.rs.  A response of the video site is           *)
(* [sent, success, body]: whether send() succeeded, whether the status is  *)
(* a success, and the text of the body as an Option (None when reading it  *)
(* fails).                                                                 *)
(***************************************************************************)
\* str::find: the 0-based offset of the first match, or None
find(s, pat) ==
    IF \E i \in 0..(Len(s) - Len(pat)) : SubSeq(s, i + 1, i + Len(pat)) = pat
    THEN Some(CHOOSE i \in 0..(Len(s) - Len(pat)) :
                 /\ SubSeq(s, i + 1, i + Len(pat)) = pat
                 /\ \A j \in 0..(i - 1) : SubSeq(s, j + 1, j + Len(pat)) # pat)
    ELSE None

\* &s[a..b], which panics when the range is not one of s
slice(s, a, b) ==
    IF a <= b /\ b <= Len(s) THEN Returned(SubSeq(s, a + 1, b)) ELSE Panicked

\* An element of the results array: a videoRenderer with its videoId, its
\* title.runs[0].text and its thumbnail.thumbnails[0].url, each an Option
\* that is None when the path is missing or is not a string
VideoRenderer(video_id, title, thumbnail) ==
    [videoRenderer |-> Some([videoId |-> video_id, title |-> title, thumbnail |-> thumbnail])]

\* An element of the results array that is not a videoRenderer
Shelf == [videoRenderer |-> None]

\* The results array of the page written {videos}
Results ==
    <<Shelf,
      VideoRenderer(Some("v1"), Some("Rust Basics"), Some("https://i.ytimg.com/vi/v1/hq.jpg?sqp=x")),
      VideoRenderer(None, Some("No id"), None),
      VideoRenderer(Some("v2"), Some("Mastering Rust"), None),
      VideoRenderer(Some("v3"), None, Some("https://i.ytimg.com/vi/v3/hq.jpg")),
      VideoRenderer(Some("v4"), Some("Rust in Production"), Some("https://i.ytimg.com/vi/v4/hq.jpg")),
      VideoRenderer(Some("v5"), Some("Rust 101"), None),
      VideoRenderer(Some("v6"), Some("Expert Rust"), None),
      VideoRenderer(Some("v7"), Some("Async Rust"), None)>>

\* serde_json::from_str followed by the chain of get(..) of lines 72 to 81:
\* Err on a text that is not JSON, else the value at
\* contents.twoColumnSearchResultsRenderer. .. .itemSectionRenderer.contents
\* as an Option, a value being [array, items].  The documents with results
\* are written by a short name.
from_str(text) ==
    IF trim(text) \in {"{}", "[]", "0"} THEN Ok(None)
    ELSE IF trim(text) = "{object}" THEN Ok(Some([array |-> FALSE, items |-> <<>>]))
    ELSE IF trim(text) = "{empty}" THEN Ok(Some([array |-> TRUE, items |-> <<>>]))
    ELSE IF trim(text) = "{shelf}" THEN Ok(Some([array |-> TRUE, items |-> <<Shelf, Shelf>>]))
    ELSE IF trim(text) = "{videos}" THEN Ok(Some([array |-> TRUE, items |-> Results]))
    ELSE Err

determine_difficulty(title) ==
    IF \/ contains(to_lowercase(title), "beginner")
       \/ contains(to_lowercase(title), "basics")
       \/ contains(to_lowercase(title), "introduction")
       \/ contains(to_lowercase(title), "101")
    THEN "beginner"
    ELSE IF \/ contains(to_lowercase(title), "advanced")
            \/ contains(to_lowercase(title), "expert")
            \/ contains(to_lowercase(title), "master")
    THEN "advanced"
    ELSE "intermediate"

\* Video { .. }
new_video(title, video_id, image, difficulty) ==
    [title |-> title,
     url |-> "https://www.youtube.com/watch?v=" \o video_id,
     video_id |-> video_id,
     type |-> "video",
     free |-> TRUE,
     image |-> image,
     source |-> "YouTube",
     difficulty |-> difficulty,
     description |-> ""]

\* url.split('?').next()
before_question_mark(url) ==
    IF find(url, "?").some THEN SubSeq(url, 1, find(url, "?").val) ELSE url

image_of(thumbnail) ==
    IF thumbnail.some THEN before_question_mark(thumbnail.val) ELSE ""

\* The loop of extract_videos_from_html from element i on: the push, then
\* the test of the limit
RECURSIVE extract_loop(_, _, _, _)
RECURSIVE extract_pushed(_, _, _, _)
extract_pushed(items, i, pushed, limit) ==
    IF Len(pushed) >= limit THEN pushed
    ELSE extract_loop(items, i + 1, pushed, limit)

extract_loop(items, i, videos, limit) ==
    IF i > Len(items) THEN videos
    ELSE IF ~items[i].videoRenderer.some
    THEN extract_loop(items, i + 1, videos, limit)
    ELSE IF \/ unwrap_or_empty(items[i].videoRenderer.val.videoId) = ""
            \/ unwrap_or_empty(items[i].videoRenderer.val.title) = ""
    THEN extract_loop(items, i + 1, videos, limit)
    ELSE extract_pushed(items, i,
                        Append(videos,
                               new_video(items[i].videoRenderer.val.title.val,
                                         items[i].videoRenderer.val.videoId.val,
                                         image_of(items[i].videoRenderer.val.thumbnail),
                                         determine_difficulty(
                                             items[i].videoRenderer.val.title.val))),
                        limit)

\* Lines 71 to 133, on the text cut out of the page
extract_from_json(json_str, limit) ==
    IF json_str.panic THEN Panicked
    ELSE IF ~from_str(json_str.ret).ok THEN Returned(Err)
    ELSE IF ~from_str(json_str.ret).val.some THEN Returned(Err)
    ELSE IF ~from_str(json_str.ret).val.val.array THEN Returned(Ok(<<>>))
    ELSE Returned(Ok(extract_loop(from_str(json_str.ret).val.val.items, 1, <<>>, limit)))

\* Lines 68 to 133, json_start being where the marker was found
extract_after_marker(html, limit, json_start) ==
    IF ~find(SubSeq(html, json_start + 1, Len(html)), ";</script>").some
    THEN Returned(Err)
    ELSE extract_from_json(
             slice(html, json_start + 19,
                   json_start
                     + find(SubSeq(html, json_start + 1, Len(html)), ";</script>").val),
             limit)

extract_videos_from_html(html, limit) ==
    IF ~find(html, "var ytInitialData = ").some THEN Returned(Err)
    ELSE extract_after_marker(html, limit, find(html, "var ytInitialData = ").val)

\* The same with an empty extraction let through, against which
\* C4_VideoNonEmpty is tested
found_videos_unchecked(extracted) == extracted

\* Lines 57 to 63: an empty extraction is an error
found_videos(extracted) ==
    IF extracted.panic THEN Panicked
    ELSE IF extracted.ret.ok /\ extracted.ret.val = <<>> THEN Returned(Err)
    ELSE extracted

\* fetch_youtube_videos on the response it got
fetch_youtube_videos(response, limit) ==
    IF ~response.sent THEN Returned(Err)
    ELSE IF ~response.success THEN Returned(Err)
    ELSE IF ~response.body.some THEN Returned(Err)
    ELSE found_videos(extract_videos_from_html(response.body.val, limit))

fallback_data ==
    <<[q |-> "docker", title |-> "Docker Tutorial for Beginners", video_id |-> "3c-iBn73dDE"],
      [q |-> "rust programming", title |-> "Rust Programming Course for Beginners",
       video_id |-> "MsocPEZBd-M"],
      [q |-> "python", title |-> "Python Tutorial for Beginners", video_id |-> "rfscVS0vtbw"],
      [q |-> "javascript", title |-> "JavaScript Tutorial for Beginners",
       video_id |-> "W6NZfCO5SIk"]>>

\* The Video of one row of fallback_data
fallback_video(row) ==
    new_video(row.title, row.video_id,
              "https://i.ytimg.com/vi/" \o row.video_id \o "/hqdefault.jpg",
              determine_difficulty(row.title))

\* The same on the query as it was typed, against which C15_VideoFallback is
\* tested
first_fallback_as_typed(query, i) ==
    /\ contains(query, fallback_data[i].q)
    /\ \A j \in 1..(i - 1) : ~contains(query, fallback_data[j].q)

\* Whether row i is the first row whose keyword the lower-cased query contains
first_fallback(query, i) ==
    /\ contains(to_lowercase(query), fallback_data[i].q)
    /\ \A j \in 1..(i - 1) : ~contains(to_lowercase(query), fallback_data[j].q)

get_fallback_videos(query) ==
    IF \E i \in 1..Len(fallback_data) : first_fallback(query, i)
    THEN <<fallback_video(
              fallback_data[CHOOSE i \in 1..Len(fallback_data) : first_fallback(query, i)])>>
    ELSE <<new_video("Learn the Basics", "dQw4w9WgXcQ",
                     "https://i.ytimg.com/vi/dQw4w9WgXcQ/hqdefault.jpg", "beginner")>>

\* unwrap_or_else(|_| get_fallback_videos(query)), then Ok(videos)
videos_or_fallback(fetched, query) ==
    IF fetched.panic THEN Panicked
    ELSE IF fetched.ret.ok THEN Returned(Ok(fetched.ret.val))
    ELSE Returned(Ok(get_fallback_videos(query)))

\* handle_youtube_scraper on the response its request got
handle_youtube_scraper(response, query, limit) ==
    videos_or_fallback(fetch_youtube_videos(response, limit), query)

(***************************************************************************)
(* Inputs: what the upstream sites may answer, and the requests that       *)
(* clients send.                                                           *)
(***************************************************************************)
\* Element 0 of the board's array: {"last_updated": .., "legal": ..}
Sentinel ==
    [id |-> None, position |-> None, company |-> None, description |-> None,
     url |-> None, date |-> None, salary |-> None, tags |-> None, logo |-> None]

RustDeveloper ==
    [id |-> Some("101"), position |-> Some("Rust Developer"), company |-> Some("Acme"),
     description |-> Some("Berlin office, $50,000 - $70,000 a year"),
     url |-> Some("/l/101"), date |-> Some("2024-05-01T12:00:00Z"),
     salary |-> None, tags |-> Some(<<"rust", "Full_Time">>), logo |-> None]

SeniorRust ==
    [id |-> None, position |-> Some("Senior Rust Engineer"), company |-> Some("Bolt"),
     description |-> Some("A senior role"),
     url |-> Some("https://bolt.io/2"), date |-> Some("2024-05-01T15:00:00+02:00"),
     salary |-> Some("$85,000"), tags |-> None, logo |-> Some("bolt.png")]

RustIntern ==
    [id |-> Some("103"), position |-> Some("Rust Intern"), company |-> None,
     description |-> Some("Not hiring associate/intern in Berlin"),
     url |-> None, date |-> Some("soon"),
     salary |-> Some(""), tags |-> Some(<<>>), logo |-> Some("https://c.io/i.png")]

Board == <<Sentinel, RustDeveloper, SeniorRust, RustIntern>>

\* A response of the job board is an error or an array
Responses == {Err, Ok(Board), Ok(<<Sentinel>>)}

Request(query, limit, location, remote_only, job_type) ==
    [query |-> query, limit |-> limit, location |-> location,
     remote_only |-> remote_only, job_type |-> job_type]

Requests ==
    {Request("rust", 5, "1 x", None, None),
     Request("rust 5", 1, "x", None, None),
     Request("rust", 0, "Berlin", Some(TRUE), None),
     Request("trending: rust", 2, "", None, None),
     Request("rust", 2, "", None, None),
     Request("rust", 0, "", None, None),
     Request("rust", 100, "", None, Some("contract"))}

\* The keys the refresh route is called with: two that requests have, in
\* another letter case too, and one that no request has
RefreshKeys ==
    {"jobs_rust_5_1_x_false_", "jobs_rust_2__false_", "JOBS_rust_2__false_",
     "jobs_go_5__false_"}

\* Clock readings, in seconds from the first one
Clock == {0, 1, CACHE_DURATION, CACHE_DURATION + 1}

\* How many job searches one behaviour starts
MaxSearches == 2

\* The clients whose requests the server handles one after the other
Serial == {"a"}

Clients == {"a", "b"}

\* The queries whose normalisation is examined: a prefix in several letter
\* cases, once or twice, before a term with or without spaces around it
Prefixes == {"", "trending:", "trending ", "Trending:", "TRENDING ", "trending:trending:"}

Terms == {"rust", " rust", "Rust ", "rust jobs"}

Locations == {"Berlin", "berlin "}

PrologueRequests ==
    {Request(p \o t, 1, l, None, None) : p \in Prefixes, t \in Terms, l \in Locations}

\* The pages of the video site
Pages ==
    {"<html></html>",
     "<script>var ytInitialData = {videos}",
     "<script>var ytInitialData = ;</script>",
     "<script>var ytInitialData = {videos;</script>",
     "<script>var ytInitialData = {};</script>",
     "<script>var ytInitialData = {object};</script>",
     "<script>var ytInitialData = {empty};</script>",
     "<script>var ytInitialData = {shelf};</script>",
     "<script>a;</script><script>var ytInitialData = {videos};</script>;</script>"}

VideoResponses ==
    {[sent |-> FALSE, success |-> FALSE, body |-> None],
     [sent |-> TRUE, success |-> FALSE, body |-> Some("<html></html>")],
     [sent |-> TRUE, success |-> TRUE, body |-> None]}
        \cup {[sent |-> TRUE, success |-> TRUE, body |-> Some(page)] : page \in Pages}

VideoQueries ==
    {"", "go", "rust", "Docker compose", "Rust Programming", "learn python", "javascript",
     "JavaScript, Python and Docker"}

VideoLimits == {0, 1, 5, 100}

\* A board whose upstream order differs from every order the trending sort
\* can give: an undated record first, two records posted at the same instant
\* (written in two offsets) in descending title order, the latest record
\* between them, and a record whose date does not parse at the end
Posting(id, position, description, date) ==
    [id |-> Some(id), position |-> Some(position), company |-> Some("Acme"),
     description |-> Some(description), url |-> None, date |-> date,
     salary |-> None, tags |-> None, logo |-> None]

DatedBoard ==
    <<Sentinel,
      Posting("201", "Rust Zealot", "Berlin", None),
      Posting("202", "Rust Coder", "Lagos", Some("2024-05-01T14:00:00+02:00")),
      Posting("203", "Rust Analyst", "", Some("2024-05-02T09:00:00Z")),
      Posting("204", "Rust Builder", "", Some("2024-05-01T12:00:00Z")),
      Posting("205", "Rust Apprentice", "", Some("yesterday"))>>

PhaseResponses == {Err, Ok(Board), Ok(DatedBoard), Ok(<<Sentinel>>)}

\* Requests whose location pass finds records (Berlin), finds none (Oslo) or
\* is not made, below, at and above the limit, in both modes
PhaseRequests ==
    {Request("rust", 5, "Berlin", None, None),
     Request("rust", 5, "Oslo", None, None),
     Request("rust", 5, "", None, None),
     Request("rust", 3, "", None, None),
     Request("trending: rust", 5, "", None, None),
     Request("trending: rust", 3, "", None, None),
     Request("trending rust", 5, "Oslo", None, None),
     Request("trending rust", 5, "Berlin", None, None),
     Request("rust", 1, "Berlin", None, None),
     Request("rust", 2, "Berlin", Some(TRUE), None),
     Request("rust", 0, "Berlin", Some(TRUE), None),
     Request("rust", 0, "Oslo", Some(TRUE), None)}

\* The tags of an upstream record: the field missing, an empty array, each
\* spelling of the vocabulary in some letter case, two types at once, and
\* tags that are outside the vocabulary
TagLists ==
    {None, Some(<<>>), Some(<<"full_time">>), Some(<<"rust", "Full-Time">>),
     Some(<<"CONTRACTOR">>), Some(<<"part_time">>), Some(<<"Intern">>),
     Some(<<"internship", "contract">>), Some(<<"fulltime">>), Some(<<"senior">>)}

\* Descriptions with one signal, with several, and with none
Descriptions ==
    {"", "We need an intern", "Full time role", "part-time contract work",
     "Contractor or intern", "internship, temporary", "temp freelance",
     "Freelance gig", "Senior people", "a PROFESSIONAL", "collaborative team",
     "years'? experience", "5 years experience", "internal tools",
     "competitive salary, part time", "nothing here"}

Tagged(tags, description) ==
    [id |-> None, position |-> Some("Engineer"), company |-> None,
     description |-> Some(description), url |-> None, date |-> None,
     salary |-> None, tags |-> tags, logo |-> None]

TaggedRecords ==
    {Tagged(tags, description) : tags \in TagLists, description \in Descriptions}

\* Amounts as salary texts write them, with the number each one stands for
Amounts ==
    {[text |-> "50,000", whole |-> 50000, frac |-> ""],
     [text |-> "70,000", whole |-> 70000, frac |-> ""],
     [text |-> "85,000", whole |-> 85000, frac |-> ""],
     [text |-> "1234.50", whole |-> 1234, frac |-> "5"]}

\* What stands between the two amounts of a range, and after a salary
RangeSeparators == {" - ", "-", " to ", " TO "}

SalarySuffixes == {"", " a year", " A Year, plus equity"}

\* What precedes and follows an amount that stands alone
SinglePrefixes == {"", "from ", "USD "}

SingleSuffixes == {"", " a year", "+", " - negotiable", " to be agreed", "k"}

\* Salary texts of the three forms: a range, one amount, no amount
RangeTexts ==
    {[text |-> "$" \o a.text \o sep \o "$" \o b.text \o suffix, min |-> a, max |-> b] :
        a \in Amounts, b \in Amounts, sep \in RangeSeparators, suffix \in SalarySuffixes}

SingleTexts ==
    {[text |-> prefix \o "$" \o a.text \o suffix, min |-> a, max |-> a] :
        a \in Amounts, prefix \in SinglePrefixes, suffix \in SingleSuffixes}

NoAmountTexts ==
    {"", "negotiable", "50,000 - 70,000", "$", "$ 50", "50$", "USD 85,000", "$,500",
     "competitive a year"}

SalaryTexts ==
    {c.text : c \in RangeTexts} \cup {c.text : c \in SingleTexts} \cup NoAmountTexts

\* The keys and the lists the cache functions are called with
CacheKeys == {"", "jobs_rust_1__false_"}

StoredLists == {<<>>, fetch_remoteok_jobs(Ok(Board), "rust", U32(1), None, FALSE).val}

\* Records and queries for the query test of fetch_remoteok_jobs: queries
\* without a token, of filler words only, of short words, of one and of
\* several words, against records that hold all, some or none of them in
\* their position or their description
MatchRecords ==
    {Posting("301", "Rust Developer", "Berlin office", None),
     Posting("302", "Senior Go Engineer", "golang, remote", None),
     Posting("303", "AI researcher", "", None),
     Posting("304", "Jobs board admin", "a career opportunity", None),
     Sentinel}

MatchQueries ==
    {"", " ", "rust", "Rust Developer", "rust berlin", "rust jobs", "jobs", "go",
     "remote go", "ai jobs", "senior go rust", "python"}

\* Descriptions in which the word intern follows the negation phrase at
\* once, after a space, or not at all, alone or with another signal
InternTexts ==
    {"Not hiring associate/intern in Berlin",
     "We are not hiring associate/internship candidates",
     "not hiring associate/intern, temp only",
     "Full time. Not hiring associate/intern",
     "intern wanted; we are not hiring associate/intern",
     "not hiring associate/ intern",
     "hiring associate/intern",
     "not hiring associate/interns",
     "an internship",
     "no signal"}

\* A board with a record of each classification, and one that has none;
\* with the salary in its field, in the description only, and nowhere; and
\* with the city in the description in several letter cases
Listing(id, position, description, salary, tags) ==
    [id |-> Some(id), position |-> Some(position), company |-> Some("Acme"),
     description |-> Some(description), url |-> None, date |-> None,
     salary |-> salary, tags |-> tags, logo |-> None]

TypedBoard ==
    <<Sentinel,
      RustDeveloper,
      SeniorRust,
      RustIntern,
      Listing("401", "Rust Contractor", "Freelance gig in Berlin, $40 to $60", Some(""), None),
      Listing("402", "Rust Writer", "Part-time, Berlin", Some("$30 - $35"), None),
      Listing("403", "Rust Temp", "Temporary cover in BERLIN", None, None),
      Listing("404", "Rust Helper", "Berlin", None, Some(<<"rust">>)),
      Listing("405", "Go Developer", "Contract work, Berlin, Germany", None,
              Some(<<"golang">>))>>

\* What the fetchers are called with
FetchResponses == {Err, Ok(TypedBoard)}

FetchQueries == {"", "rust", "Rust Developer", "go"}

FetchLimits == {0, 1, 3, 10}

FetchLocations == {"Berlin", "Berlin, Germany", ", Germany", "Oslo"}

JobTypeFilters ==
    {None, Some("full-time"), Some("Part-Time"), Some("contract"), Some("freelance"),
     Some("time"), Some(""), Some("intern"), Some("remote")}

\* The requests of callers that are served at the same time, and what the
\* board answers them: two fetches of one request give two lists when a
\* phase of one of them fails
ConcurrentRequests ==
    {Request("rust", 3, "Berlin", None, None), Request("rust", 0, "Berlin", None, None)}

ConcurrentResponses == {Err, Ok(Board)}

\* Clock readings one lifetime of an entry apart
Lifetimes == {0, CACHE_DURATION}

(***************************************************************************)
(* State                                                                   *)
(***************************************************************************)
VARIABLES
    cache,            \* CACHE: key -> [data, timestamp], on the keys present
    now,              \* SystemTime::now() as seconds
    overflow_checks,  \* the build: whether integer overflow panics (debug) or wraps
    pc,               \* per client: "idle", "location", "general", "done", "panicked"
    req,              \* per client: the request being handled, as an Option
    locals,           \* per client: is_trending, clean_query and cache_key, as an Option
    jobs,             \* per client: the handler's local jobs
    upstream,         \* per client: the upstream requests the handler has issued
    outcomes,         \* history, per client: whether each of them succeeded, as
                      \* far as answered
    removed,          \* history, per client: whether remove_cache of the handler's
                      \* key or clear_cache returned after the handler collected
                      \* the records in jobs
    ret,              \* per client: what the handler returned, as an Option
    hit,              \* per client: whether the handler returned from the cache
    searches,         \* job searches started so far
    last_set,         \* history: key -> [value, at] of the last set_cache of each
                      \* key that no remove_cache or clear_cache followed
    video_pc,         \* the video handler: "idle", "fetching", "done", "panicked"
    video_req,        \* the video request being handled, as an Option
    video_ret,        \* what handle_youtube_scraper returned, as an Option
    call,             \* the function of the classification engine last applied,
                      \* with its arguments, as an Option
    result,           \* what it returned, as an Option
    poisoned,         \* whether a thread panicked while it held the lock of CACHE
    cache_op          \* the cache function last called, by whom, and whether the
                      \* call panicked, as an Option

job_vars ==
    <<cache, now, overflow_checks, pc, req, locals, jobs, upstream, outcomes, removed, ret,
      hit, searches, last_set>>

video_vars == <<video_pc, video_req, video_ret>>

engine_vars == <<call, result>>

lock_vars == <<poisoned, cache_op>>

vars == <<job_vars, video_vars, engine_vars, lock_vars>>

Init ==
    /\ cache = <<>>
    /\ now = 0
    /\ overflow_checks \in BOOLEAN
    /\ pc = [c \in Clients |-> "idle"]
    /\ req = [c \in Clients |-> None]
    /\ locals = [c \in Clients |-> None]
    /\ jobs = [c \in Clients |-> <<>>]
    /\ upstream = [c \in Clients |-> <<>>]
    /\ outcomes = [c \in Clients |-> <<>>]
    /\ removed = [c \in Clients |-> FALSE]
    /\ ret = [c \in Clients |-> None]
    /\ hit = [c \in Clients |-> FALSE]
    /\ searches = 0
    /\ last_set = <<>>
    /\ video_pc = "idle"
    /\ video_req = None
    /\ video_ret = None
    /\ call = None
    /\ result = None
    /\ poisoned = FALSE
    /\ cache_op = None

\* Lines 33 to 52 of handle_job_scraper: the locals computed from the request
prologue(r) ==
    [is_trending |-> is_trending(r.query),
     clean_query |-> clean_query(r.query),
     cache_key |-> key_of(r)]

\* The history after the handler of request r moved as `step` says
recorded(step, r) ==
    IF step.wrote
    THEN [k \in DOMAIN last_set \cup {key_of(r)} |->
            IF k = key_of(r) THEN [value |-> step.jobs, at |-> now] ELSE last_set[k]]
    ELSE last_set

\* The handler of client c, on request r, moves as segment `step` says
Move(c, r, step) ==
    /\ cache' = step.cache
    /\ pc' = [pc EXCEPT ![c] = step.pc]
    /\ jobs' = [jobs EXCEPT ![c] = step.jobs]
    /\ upstream' = [upstream EXCEPT ![c] = step.upstream]
    /\ ret' = [ret EXCEPT ![c] = step.ret]
    /\ hit' = [hit EXCEPT ![c] = step.hit]
    /\ last_set' = recorded(step, r)

\* get_jobs: a request arrives and handle_job_scraper runs to its first await
Begin(c, r) ==
    /\ pc[c] \in {"idle", "done", "panicked"}
    /\ searches < MaxSearches
    /\ searches' = searches + 1
    /\ req' = [req EXCEPT ![c] = Some(r)]
    /\ locals' = [locals EXCEPT ![c] = Some(prologue(r))]
    /\ outcomes' = [outcomes EXCEPT ![c] = <<>>]
    /\ removed' = [removed EXCEPT ![c] = FALSE]
    /\ Move(c, r, begin(cache, now, overflow_checks, r))
    /\ UNCHANGED <<now, overflow_checks, video_vars, engine_vars, lock_vars>>

\* The location-biased request completes
LocationResponse(c, response) ==
    /\ pc[c] = "location"
    /\ Move(c, req[c].val,
            location_response(cache, now, overflow_checks, req[c].val,
                              jobs[c], upstream[c], response))
    /\ outcomes' = [outcomes EXCEPT ![c] = Append(@, response.ok)]
    /\ UNCHANGED <<now, overflow_checks, req, locals, removed, searches, video_vars,
                   engine_vars, lock_vars>>

\* The general request completes
GeneralResponse(c, response) ==
    /\ pc[c] = "general"
    /\ Move(c, req[c].val,
            general_response(cache, now, overflow_checks, req[c].val,
                             jobs[c], upstream[c], response))
    /\ outcomes' = [outcomes EXCEPT ![c] = Append(@, response.ok)]
    /\ UNCHANGED <<now, overflow_checks, req, locals, removed, searches, video_vars,
                   engine_vars, lock_vars>>

\* GET /api/v1/cache/clear
ClearAllCache ==
    /\ cache' = clear_cache(cache)
    /\ last_set' = <<>>
    /\ removed' = [c \in Clients |-> removed[c] \/ (pc[c] = "general" /\ jobs[c] # <<>>)]
    /\ UNCHANGED <<now, overflow_checks, pc, req, locals, jobs, upstream, outcomes, ret,
                   hit, searches, video_vars, engine_vars, lock_vars>>

\* GET /api/v1/cache/refresh?cache_key=k
RefreshCache(k) ==
    /\ cache' = remove_cache(cache, k)
    /\ last_set' = [j \in DOMAIN last_set \ {k} |-> last_set[j]]
    /\ removed' =
          [c \in Clients |->
              \/ removed[c]
              \/ pc[c] = "general" /\ jobs[c] # <<>> /\ key_of(req[c].val) = k]
    /\ UNCHANGED <<now, overflow_checks, pc, req, locals, jobs, upstream, outcomes, ret,
                   hit, searches, video_vars, engine_vars, lock_vars>>

\* Time passes.  Here the clock only goes forward, so get_cache never
\* overflows and the lock of CACHE is never poisoned; CacheSpec sets it back.
Tick(t) ==
    /\ t > now
    /\ now' = t
    /\ UNCHANGED <<cache, overflow_checks, pc, req, locals, jobs, upstream, outcomes,
                   removed, ret, hit, searches, last_set, video_vars, engine_vars,
                   lock_vars>>

Next ==
    \/ \E c \in Serial, r \in Requests : Begin(c, r)
    \/ \E c \in Serial, response \in Responses : LocationResponse(c, response)
    \/ \E c \in Serial, response \in Responses : GeneralResponse(c, response)
    \/ ClearAllCache
    \/ \E k \in RefreshKeys : RefreshCache(k)
    \/ \E t \in Clock : Tick(t)

\* The job search, the cache routes and the clock, requests handled one
\* after the other
Spec == Init /\ [][Next]_vars

(***************************************************************************)
(* The prologue of handle_job_scraper alone, on two requests               *)
(***************************************************************************)
\* Lines 33 to 52 run on request r for client c
Prologue(c, r) ==
    /\ ~req[c].some
    /\ req' = [req EXCEPT ![c] = Some(r)]
    /\ locals' = [locals EXCEPT ![c] = Some(prologue(r))]
    /\ UNCHANGED <<cache, now, overflow_checks, pc, jobs, upstream, outcomes, removed,
                   ret, hit, searches, last_set, video_vars, engine_vars, lock_vars>>

PrologueNext == \E c \in Clients, r \in PrologueRequests : Prologue(c, r)

PrologueSpec == Init /\ [][PrologueNext]_vars

(***************************************************************************)
(* The video search                                                        *)
(***************************************************************************)
\* get_video: a request arrives and its upstream request is sent
GetVideo(query, limit) ==
    /\ video_pc \in {"idle", "done", "panicked"}
    /\ video_pc' = "fetching"
    /\ video_req' = Some([query |-> query, limit |-> limit])
    /\ video_ret' = None
    /\ UNCHANGED <<job_vars, engine_vars, lock_vars>>

\* The upstream request completes and handle_youtube_scraper returns
VideoResponse(response) ==
    /\ video_pc = "fetching"
    /\ video_pc' =
          IF handle_youtube_scraper(response, video_req.val.query, video_req.val.limit).panic
          THEN "panicked" ELSE "done"
    /\ video_ret' =
          IF handle_youtube_scraper(response, video_req.val.query, video_req.val.limit).panic
          THEN None
          ELSE Some(handle_youtube_scraper(response, video_req.val.query,
                                           video_req.val.limit).ret)
    /\ UNCHANGED <<job_vars, video_req, engine_vars, lock_vars>>

VideoNext ==
    \/ \E query \in VideoQueries, limit \in VideoLimits : GetVideo(query, limit)
    \/ \E response \in VideoResponses : VideoResponse(response)

VideoSpec == Init /\ [][VideoNext]_vars

(***************************************************************************)
(* One job search on an empty cache, its two phases answered in every way  *)
(***************************************************************************)
\* The first request of the server's life arrives
FirstSearch(c, r) == searches = 0 /\ Begin(c, r)

PhaseNext ==
    \/ \E c \in Serial, r \in PhaseRequests : FirstSearch(c, r)
    \/ \E c \in Serial, response \in PhaseResponses : LocationResponse(c, response)
    \/ \E c \in Serial, response \in PhaseResponses : GeneralResponse(c, response)

PhaseSpec == Init /\ [][PhaseNext]_vars

(***************************************************************************)
(* The classification engine, one function applied at a time               *)
(***************************************************************************)
\* Each action applies one function of the engine to arguments and records
\* what it returned
DetermineJobType(job) ==
    /\ ~call.some
    /\ call' = Some([fn |-> "determine_job_type", args |-> <<job>>])
    /\ result' = Some(determine_job_type(job))
    /\ UNCHANGED <<job_vars, video_vars, lock_vars>>

ParseSalary(salary_text) ==
    /\ ~call.some
    /\ call' = Some([fn |-> "parse_salary", args |-> <<salary_text>>])
    /\ result' = Some(parse_salary(salary_text))
    /\ UNCHANGED <<job_vars, video_vars, lock_vars>>

PositionMatches(job, query, trending) ==
    /\ ~call.some
    /\ call' = Some([fn |-> "position_matches", args |-> <<job, query, trending>>])
    /\ result' = Some(general_matches(job, query, trending))
    /\ UNCHANGED <<job_vars, video_vars, lock_vars>>

ExtractJobType(text) ==
    /\ ~call.some
    /\ call' = Some([fn |-> "extract_job_type", args |-> <<text>>])
    /\ result' = Some(extract_job_type(text))
    /\ UNCHANGED <<job_vars, video_vars, lock_vars>>

EngineNext ==
    \/ \E job \in TaggedRecords : DetermineJobType(job)
    \/ \E text \in InternTexts \cup Descriptions : ExtractJobType(text)
    \/ \E salary_text \in SalaryTexts : ParseSalary(salary_text)
    \/ \E job \in MatchRecords, query \in MatchQueries, trending \in BOOLEAN :
          PositionMatches(job, query, trending)

EngineSpec == Init /\ [][EngineNext]_vars

(***************************************************************************)
(* The cache functions called directly, by two callers in any order, with  *)
(* a clock that may be set back.  Each function holds the lock of CACHE    *)
(* from its first line to its return, so each call is one step.            *)
(* CACHE.lock().unwrap() panics when the lock is poisoned, and a panic     *)
(* with the guard alive poisons the lock.                                  *)
(***************************************************************************)
\* What a cache function leaves behind: who called what, and the poison flag
called(c, op, panic) ==
    /\ cache_op' = Some([caller |-> c, op |-> op, panic |-> panic])
    /\ poisoned' = panic

GetCache(c, key) ==
    /\ called(c, "get_cache",
              poisoned \/ get_cache(cache, now, overflow_checks, key).panic)
    /\ UNCHANGED <<job_vars, video_vars, engine_vars>>

SetCache(c, key, data) ==
    /\ called(c, "set_cache", poisoned)
    /\ cache' = IF poisoned THEN cache ELSE set_cache(cache, now, key, data)
    /\ last_set' =
          IF poisoned THEN last_set
          ELSE [k \in DOMAIN last_set \cup {key} |->
                  IF k = key THEN [value |-> data, at |-> now] ELSE last_set[k]]
    /\ UNCHANGED <<now, overflow_checks, pc, req, locals, jobs, upstream, outcomes, removed,
                   ret, hit, searches, video_vars, engine_vars>>

ClearCache(c) ==
    /\ called(c, "clear_cache", poisoned)
    /\ cache' = IF poisoned THEN cache ELSE clear_cache(cache)
    /\ last_set' = IF poisoned THEN last_set ELSE <<>>
    /\ UNCHANGED <<now, overflow_checks, pc, req, locals, jobs, upstream, outcomes, removed,
                   ret, hit, searches, video_vars, engine_vars>>

RemoveCache(c, key) ==
    /\ called(c, "remove_cache", poisoned)
    /\ cache' = IF poisoned THEN cache ELSE remove_cache(cache, key)
    /\ last_set' =
          IF poisoned THEN last_set ELSE [j \in DOMAIN last_set \ {key} |-> last_set[j]]
    /\ UNCHANGED <<now, overflow_checks, pc, req, locals, jobs, upstream, outcomes, removed,
                   ret, hit, searches, video_vars, engine_vars>>

\* SystemTime::now() is the wall clock: it can be set forward or back
SetClock(t) ==
    /\ t # now
    /\ now' = t
    /\ UNCHANGED <<cache, overflow_checks, pc, req, locals, jobs, upstream, outcomes,
                   removed, ret, hit, searches, last_set, video_vars, engine_vars,
                   lock_vars>>

CacheNext ==
    \/ \E c \in Clients, key \in CacheKeys : GetCache(c, key)
    \/ \E c \in Clients, key \in CacheKeys, data \in StoredLists : SetCache(c, key, data)
    \/ \E c \in Clients : ClearCache(c)
    \/ \E c \in Clients, key \in CacheKeys : RemoveCache(c, key)
    \/ \E t \in Clock : SetClock(t)

CacheSpec == Init /\ [][CacheNext]_vars

(***************************************************************************)
(* The two fetchers, each applied once to the response its request got     *)
(***************************************************************************)
FetchRemoteokJobs(response, query, limit, job_type, trending) ==
    /\ ~call.some
    /\ call' = Some([fn |-> "fetch_remoteok_jobs",
                     args |-> <<response, query, limit, job_type, trending>>])
    /\ result' = Some(fetch_remoteok_jobs(response, query, U32(limit), job_type, trending))
    /\ UNCHANGED <<job_vars, video_vars, lock_vars>>

FetchRemoteokJobsWithLocation(response, query, limit, location, job_type) ==
    /\ ~call.some
    /\ call' = Some([fn |-> "fetch_remoteok_jobs_with_location",
                     args |-> <<response, query, limit, location, job_type>>])
    /\ result' = Some(fetch_remoteok_jobs_with_location(response, query, limit, location,
                                                        job_type))
    /\ UNCHANGED <<job_vars, video_vars, lock_vars>>

FetchNext ==
    \/ \E response \in FetchResponses, query \in FetchQueries, limit \in FetchLimits,
          job_type \in JobTypeFilters, trending \in BOOLEAN :
          FetchRemoteokJobs(response, query, limit, job_type, trending)
    \/ \E response \in FetchResponses, query \in FetchQueries, limit \in FetchLimits,
          location \in FetchLocations, job_type \in JobTypeFilters :
          FetchRemoteokJobsWithLocation(response, query, limit, location, job_type)

FetchSpec == Init /\ [][FetchNext]_vars

(***************************************************************************)
(* Two callers served at the same time: their handlers interleave at the   *)
(* await points, with each other and with the cache routes                 *)
(***************************************************************************)
ConcurrentNext ==
    \/ \E c \in Clients, r \in ConcurrentRequests : Begin(c, r)
    \/ \E c \in Clients, response \in ConcurrentResponses : LocationResponse(c, response)
    \/ \E c \in Clients, response \in ConcurrentResponses : GeneralResponse(c, response)
    \/ ClearAllCache
    \/ \E r \in ConcurrentRequests : RefreshCache(key_of(r))
    \/ \E t \in Lifetimes : Tick(t)

ConcurrentSpec == Init /\ [][ConcurrentNext]_vars

C2_NeverFails == \A c \in Clients : pc[c] # "panicked"

\* C3 (limit invariant of the job search): every list handle_job_scraper
\* returned, from a fresh fetch or from the cache, is no longer than the
\* limit of the request it answers.
C3_LimitInvariant ==
    \A c \in Clients : ret[c].some => Len(ret[c].val) <= req[c].val.limit

\* C4 (the video search never fails outward): handle_youtube_scraper never
\* panics and returns Ok with at least one record, whatever the query, the
\* limit and the upstream outcome.
C4_VideoNonEmpty ==
    /\ video_pc # "panicked"
    /\ video_pc = "done" =>
          /\ video_ret.some
          /\ video_ret.val.ok
          /\ Len(video_ret.val.val) >= 1

\* A search for "go", which no fallback keyword matches, was answered by the
\* default fallback record
C4_Witness ==
    /\ video_pc = "done"
    /\ video_req.val.query = "go"
    /\ video_ret.val.val = get_fallback_videos("go")

\* C5 (limit invariant of the video search): every list
\* handle_youtube_scraper returned is no longer than the request's limit, on
\* the extraction path and on the fallback path.
C5_VideoLimit ==
    video_pc = "done" => Len(video_ret.val.val) <= video_req.val.limit

\* C6 (key determinism): two requests whose query and location differ only
\* in letter case or in spaces around them, with equal limit, remote flag
\* and job type, have the same cache key.
C6_KeyDeterminism ==
    \A c1, c2 \in Clients :
        (/\ req[c1].some /\ req[c2].some
         /\ to_lowercase(trim(req[c1].val.query)) = to_lowercase(trim(req[c2].val.query))
         /\ to_lowercase(trim(req[c1].val.location))
               = to_lowercase(trim(req[c2].val.location))
         /\ req[c1].val.limit = req[c2].val.limit
         /\ remote_flag(req[c1].val.remote_only) = remote_flag(req[c2].val.remote_only)
         /\ req[c1].val.job_type = req[c2].val.job_type)
        => locals[c1].val.cache_key = locals[c2].val.cache_key

\* C7 (cache hit short-circuit): a call that starts while the cache holds a
\* non-expired entry under the request's key returns that entry's list at
\* once, with no upstream request issued and the cache as it was.
C7_HitShortCircuit ==
    [][\A c \in Clients :
          (/\ searches' = searches + 1
           /\ req'[c].some
           /\ Begin(c, req'[c].val)
           /\ key_of(req'[c].val) \in DOMAIN cache
           /\ cache[key_of(req'[c].val)].timestamp <= now
           /\ now - cache[key_of(req'[c].val)].timestamp < CACHE_DURATION)
          => /\ pc'[c] = "done"
             /\ hit'[c]
             /\ ret'[c] = Some(from_value(cache[key_of(req'[c].val)].data))
             /\ upstream'[c] = <<>>
             /\ cache' = cache]_vars

\* A call was answered from the cache with a list that is not empty
C7_Witness ==
    \E c \in Clients :
        /\ pc[c] = "done"
        /\ hit[c]
        /\ upstream[c] = <<>>
        /\ ret[c].val # <<>>

\* C8 (cache write policy): when a call that missed the cache returns, the
\* cache holds exactly the returned list under the request's key, stamped
\* with the time of the write, if that list is not empty; and the cache is
\* exactly as before the step if the list is empty.  (A call that missed
\* returns in the steps that take it to "done" without a hit, from an await
\* or from its start.)
C8_WritePolicy ==
    [][\A c \in Clients :
          (/\ pc'[c] = "done"
           /\ ~hit'[c]
           /\ pc[c] \in {"location", "general"} \/ searches' = searches + 1)
          => IF ret'[c].val # <<>>
             THEN /\ key_of(req'[c].val) \in DOMAIN cache'
                  /\ from_value(cache'[key_of(req'[c].val)].data) = ret'[c].val
                  /\ cache'[key_of(req'[c].val)].timestamp = now
             ELSE cache' = cache]_vars

\* A call that missed returned an empty list while the cache held an entry
\* that an earlier call wrote
C8_Witness ==
    \E c \in Clients :
        /\ pc[c] = "done"
        /\ ~hit[c]
        /\ ret[c].val = <<>>
        /\ cache # <<>>

\* C9 (cache management): the clear route leaves no entry; the refresh route
\* on key k removes the entry stored under exactly k, leaves every other
\* entry as it was and changes nothing when k is unknown; after either, the
\* removed keys read absent, and an absent key comes back only by a write of
\* a call that returns a list under that key.
C9_CacheManagement ==
    [][/\ ClearAllCache =>
            /\ DOMAIN cache' = {}
            /\ \A k \in DOMAIN cache :
                  get_cache(cache', now', overflow_checks', k) = Returned(None)
       /\ \A k \in RefreshKeys :
            RefreshCache(k) =>
               /\ DOMAIN cache' = DOMAIN cache \ {k}
               /\ \A j \in DOMAIN cache' : cache'[j] = cache[j]
               /\ k \notin DOMAIN cache => cache' = cache
               /\ get_cache(cache', now', overflow_checks', k) = Returned(None)
       /\ \A k \in DOMAIN cache' \ DOMAIN cache :
            \E c \in Clients :
               /\ pc'[c] = "done" /\ pc[c] # "done"
               /\ ~hit'[c]
               /\ ret'[c].val # <<>>
               /\ key_of(req'[c].val) = k]_vars

\* The entry that the last call wrote is gone while another entry is still
\* there: the refresh route removed one key of two
C9_Witness ==
    \E c \in Clients :
        /\ pc[c] = "done"
        /\ ~hit[c]
        /\ ret[c].val # <<>>
        /\ key_of(req[c].val) \notin DOMAIN cache
        /\ cache # <<>>

\* C10 (trending parse): trending mode is detected iff the lower-cased query
\* starts with "trending:" or "trending "; when detected the cleaned term is
\* the query without its first nine characters, trimmed; otherwise it is
\* the query unchanged.
C10_TrendingParse ==
    \A c \in Clients :
        req[c].some =>
            /\ locals[c].val.is_trending
                  = (\/ starts_with(to_lowercase(req[c].val.query), "trending:")
                     \/ starts_with(to_lowercase(req[c].val.query), "trending "))
            /\ locals[c].val.clean_query
                  = IF \/ starts_with(to_lowercase(req[c].val.query), "trending:")
                       \/ starts_with(to_lowercase(req[c].val.query), "trending ")
                    THEN trim(SubSeq(req[c].val.query, 10, Len(req[c].val.query)))
                    ELSE req[c].val.query

\* C11 (per-phase degradation): a phase whose upstream request fails adds
\* nothing and stops nothing.  A failed location phase leaves the list empty
\* and the call going; a failed general phase makes the call return the
\* location phase's records (cut to the limit); a general phase that
\* succeeds after a location phase that failed makes the call return the
\* general fetch's records (cut to the limit, whatever their location label
\* and order); and the call returns an empty list when both failed.
C11_PhaseDegradation ==
    [][\A c \in Serial :
          LET r == req[c].val
              got == fetch_remoteok_jobs(Ok(Board), clean_query(r.query), U32(r.limit),
                                         r.job_type, is_trending(r.query))
              dated == fetch_remoteok_jobs(Ok(DatedBoard), clean_query(r.query),
                                           U32(r.limit), r.job_type, is_trending(r.query))
              unlabelled(list) ==
                  {[list[i] EXCEPT !.location = ""] : i \in 1..Len(list)}
              returns(list) ==
                  /\ pc'[c] = "done"
                  /\ Len(ret'[c].val) = Len(truncate(list, r.limit))
                  /\ unlabelled(ret'[c].val) = unlabelled(truncate(list, r.limit))
          IN  /\ (pc[c] = "location" /\ LocationResponse(c, Err))
                    => /\ jobs'[c] = <<>>
                       /\ pc'[c] \in {"general", "done"}
                       /\ pc'[c] = "done" => ret'[c] = Some(<<>>)
              /\ (pc[c] = "general" /\ GeneralResponse(c, Err))
                    => /\ pc'[c] = "done"
                       /\ ret'[c] = Some(truncate(jobs[c], r.limit))
              /\ (pc[c] = "general" /\ outcomes[c] = <<FALSE>>
                    /\ GeneralResponse(c, Ok(Board))) => returns(got.val)
              /\ (pc[c] = "general" /\ outcomes[c] = <<FALSE>>
                    /\ GeneralResponse(c, Ok(DatedBoard))) => returns(dated.val)
              /\ (pc'[c] = "done" /\ outcomes'[c] \in {<<FALSE>>, <<FALSE, FALSE>>}
                    /\ pc[c] # "done") => ret'[c] = Some(<<>>)]_vars

\* A call whose location phase succeeded and whose general phase failed
\* returned the two records of its location phase
C11_Witness ==
    \E c \in Serial :
        /\ pc[c] = "done"
        /\ outcomes[c] = <<TRUE, FALSE>>
        /\ Len(ret[c].val) = 2

\* C12 (location backfill): in a call that missed the cache and has a
\* location, when the general fetch succeeds after a location pass that
\* contributed nothing, the call returns at most limit records, each a
\* record of the general fetch with the location "Remote (Worldwide,
\* including <location>)"; and when the location pass contributed a record,
\* no record the call returns has that location.
C12_LocationBackfill ==
    [][\A c \in Serial :
          LET r == req[c].val
              relabel == "Remote (Worldwide, including " \o r.location \o ")"
              fetched(response) ==
                  fetch_remoteok_jobs(response, clean_query(r.query), U32(r.limit),
                                      r.job_type, is_trending(r.query)).val
              backfilled(response) ==
                  /\ pc'[c] = "done"
                  /\ Len(ret'[c].val) <= r.limit
                  /\ \A i \in 1..Len(ret'[c].val) :
                        /\ ret'[c].val[i].location = relabel
                        /\ \E j \in 1..Len(fetched(response)) :
                              ret'[c].val[i]
                                 = [fetched(response)[j] EXCEPT !.location = relabel]
          IN  /\ \A response \in PhaseResponses \ {Err} :
                    (/\ pc[c] = "general"
                     /\ r.location # ""
                     /\ jobs[c] = <<>>
                     /\ GeneralResponse(c, response)) => backfilled(response)
              /\ (/\ pc[c] \in {"location", "general"}
                  /\ pc'[c] = "done"
                  /\ jobs[c] # <<>> \/ (pc[c] = "location" /\ jobs'[c] # <<>>))
                    => \A i \in 1..Len(ret'[c].val) : ret'[c].val[i].location # relabel]_vars

\* A search in Oslo, where the location pass found nothing, returned the
\* general fetch's five records, each relabelled
C12_Witness ==
    \E c \in Serial :
        /\ pc[c] = "done"
        /\ outcomes[c] = <<TRUE, TRUE>>
        /\ req[c].val.location = "Oslo"
        /\ Len(ret[c].val) = 5
        /\ \A i \in 1..5 : ret[c].val[i].location = "Remote (Worldwide, including Oslo)"

\* C13 (trending sort): the records a successful general fetch adds to the
\* returned list are, in trending mode, in descending order of parsed post
\* date, those whose date is missing or does not parse after all the
\* others, and those of one date (or all without one) in ascending order of
\* title; in the other mode they are in the order of the upstream array.
C13_TrendingSort ==
    [][\A c \in Serial, response \in PhaseResponses \ {Err} :
          LET r == req[c].val
              appended == SubSeq(ret'[c].val, Len(jobs[c]) + 1, Len(ret'[c].val))
              place(job) ==
                  CHOOSE k \in 1..Len(response.val) :
                      response.val[k].position = Some(job.title)
              in_order(a, b) ==
                  IF is_trending(r.query)
                  THEN \/ job_date(a).some /\ ~job_date(b).some
                       \/ /\ job_date(a).some /\ job_date(b).some
                          /\ job_date(a).val > job_date(b).val
                       \/ /\ job_date(a) = job_date(b)
                          /\ str_cmp(a.title, b.title) <= 0
                  ELSE place(a) < place(b)
          IN  (pc[c] = "general" /\ GeneralResponse(c, response))
                 => \A i, j \in 1..Len(appended) :
                       i < j => in_order(appended[i], appended[j])]_vars

\* A trending search returned the dated board's five records latest first,
\* the two of one instant and the two without a date by title
C13_Witness ==
    \E c \in Serial :
        /\ pc[c] = "done"
        /\ is_trending(req[c].val.query)
        /\ Len(ret[c].val) = 5
        /\ [i \in 1..5 |-> ret[c].val[i].title]
              = <<"Rust Analyst", "Rust Builder", "Rust Coder", "Rust Apprentice",
                  "Rust Zealot">>

\* C14 (job-type precedence): determine_job_type returns the type of a tag
\* of the vocabulary (compared without regard to letter case) when the
\* record has one, whatever the description; otherwise the type of the
\* first description pattern that matches, in the order Full-time,
\* Part-time, Contract, Internship, Temporary, Freelance; otherwise
\* Full-time when the description contains "senior", "professional" or
\* "collaborative team"; otherwise nothing.
C14_JobTypePrecedence ==
    (call.some /\ call.val.fn = "determine_job_type") =>
        LET job == call.val.args[1]
            text == to_lowercase(unwrap_or_empty(job.description))
            vocabulary ==
                [full_time |-> "Full-time", contract |-> "Contract",
                 contractor |-> "Contract", part_time |-> "Part-time",
                 internship |-> "Internship", intern |-> "Internship"]
            word(tag) == replace(to_lowercase(tag), "-", "_")
            tag_types ==
                IF job.tags.some
                THEN {vocabulary[word(job.tags.val[i])] :
                        i \in {j \in 1..Len(job.tags.val) :
                                  word(job.tags.val[j]) \in
                                     {"full_time", "contract", "contractor", "part_time",
                                      "internship", "intern"}}}
                ELSE {}
            patterns ==
                <<[type |-> "Full-time", found |-> re_full_time(text)],
                  [type |-> "Part-time", found |-> re_part_time(text)],
                  [type |-> "Contract", found |-> re_contract(text)],
                  [type |-> "Internship", found |-> re_intern_starts(text) # {}],
                  [type |-> "Temporary", found |-> re_temp(text)],
                  [type |-> "Freelance", found |-> re_freelance(text)]>>
            matching == {i \in 1..6 : patterns[i].found}
        IN  IF tag_types # {} THEN result.val.some /\ result.val.val \in tag_types
            ELSE IF matching # {}
            THEN result.val
                    = Some(patterns[CHOOSE i \in matching : \A j \in matching : i <= j].type)
            ELSE IF \/ contains(text, "senior")
                    \/ contains(text, "professional")
                    \/ contains(text, "collaborative team")
            THEN result.val = Some("Full-time")
            ELSE result.val = None

\* C15 (video fallback): whenever fetch_youtube_videos fails, whatever the
\* failure and the limit, handle_youtube_scraper returns Ok with one record:
\* that of the first of the keywords docker, rust programming, python,
\* javascript that the query contains (without regard to letter case), or
\* the default record, with video id dQw4w9WgXcQ, when it contains none.
C15_VideoFallback ==
    [][LET query == to_lowercase(video_req.val.query)
           keywords == <<"docker", "rust programming", "python", "javascript">>
           ids == <<"3c-iBn73dDE", "MsocPEZBd-M", "rfscVS0vtbw", "W6NZfCO5SIk">>
           present == {i \in 1..4 : contains(query, keywords[i])}
           expected ==
               IF present = {} THEN "dQw4w9WgXcQ"
               ELSE ids[CHOOSE i \in present : \A j \in present : i <= j]
           fallback_returned ==
               /\ video_pc' = "done"
               /\ video_ret'.val.ok
               /\ Len(video_ret'.val.val) = 1
               /\ video_ret'.val.val[1].video_id = expected
               /\ video_ret'.val.val
                     \in {<<fallback_video(fallback_data[i])>> : i \in 1..4}
                            \cup {get_fallback_videos("")}
           fetch_failed ==
               \E response \in VideoResponses :
                   /\ fetch_youtube_videos(response, video_req.val.limit) = Returned(Err)
                   /\ VideoResponse(response)
       IN  video_pc = "fetching" /\ video_pc' # "fetching"
              => fallback_returned \/ ~fetch_failed]_vars

\* A search with limit 0 whose query names three keywords was answered by
\* the record of the first of them in the list's order, docker
C15_Witness ==
    /\ video_pc = "done"
    /\ video_req.val = [query |-> "JavaScript, Python and Docker", limit |-> 0]
    /\ Len(video_ret.val.val) = 1
    /\ video_ret.val.val[1].video_id = "3c-iBn73dDE"

\* C16 (salary parsing): parse_salary returns (A, B) for a text with the
\* range "$A - $B" or "$A to $B", else (V, V) for a text with one amount
\* "$V", else (absent, absent), the commas of an amount dropped before it
\* is read as a number: "$50,000 - $70,000 a year" gives (50000, 70000),
\* "$85,000" gives (85000, 85000) and "" gives (absent, absent).
C16_SalaryParsing ==
    (call.some /\ call.val.fn = "parse_salary") =>
        LET salary_text == call.val.args[1]
            number(a) == Some([whole |-> a.whole, frac |-> a.frac])
            example(whole) == Some([whole |-> whole, frac |-> ""])
        IN  /\ \A c \in RangeTexts \cup SingleTexts :
                  salary_text = c.text
                     => result.val = [min |-> number(c.min), max |-> number(c.max)]
            /\ salary_text \in NoAmountTexts => result.val = [min |-> None, max |-> None]
            /\ salary_text = "$50,000 - $70,000 a year"
                  => result.val = [min |-> example(50000), max |-> example(70000)]
            /\ salary_text = "$85,000"
                  => result.val = [min |-> example(85000), max |-> example(85000)]
            /\ salary_text = "" => result.val = [min |-> None, max |-> None]

\* The first example of the claim was parsed
C16_Witness ==
    /\ call.some
    /\ call.val = [fn |-> "parse_salary", args |-> <<"$50,000 - $70,000 a year">>]
    /\ result.val.min.val.whole = 50000
    /\ result.val.max.val.whole = 70000

\* C17 (no cache operation can fail): no call of get_cache, set_cache,
\* clear_cache or remove_cache panics, and none leaves the lock of the
\* store poisoned, whatever the key, the stored list, the clock reading
\* (one before an entry's timestamp too) and the order of the callers'
\* calls.
C17_CacheNeverFails ==
    /\ ~poisoned
    /\ cache_op.some => ~cache_op.val.panic

\* C18 (cache transparency): requests with one cache key return one list on
\* a cache miss against the same upstream answers, and so a call answered
\* from the cache returns a list that a miss of the same request returns
\* against some upstream answers.
C18_CacheTransparency ==
    [][\A c \in Serial :
          (searches' = searches + 1 /\ hit'[c]) =>
              /\ \A r \in Requests, location_data \in Responses, general_data \in Responses :
                    key_of(r) = key_of(req'[c].val) =>
                        handle_job_scraper(overflow_checks, r, location_data, general_data).ret
                           = handle_job_scraper(overflow_checks, req'[c].val,
                                                location_data, general_data).ret
              /\ \E location_data \in Responses, general_data \in Responses :
                    ret'[c] = handle_job_scraper(overflow_checks, req'[c].val,
                                                 location_data, general_data).ret]_vars

\* C19 (general-fetch matching): a record passes the query test of
\* fetch_remoteok_jobs exactly when, in the plain mode, every token of the
\* lower-cased query is in its lower-cased position or description, and, in
\* trending mode, some meaningful token (no filler word, longer than two
\* characters) is, or some token that is no filler word when there is no
\* meaningful one.
C19_GeneralMatching ==
    (call.some /\ call.val.fn = "position_matches") =>
        LET job == call.val.args[1]
            tokens == split_whitespace(to_lowercase(call.val.args[2]))
            text == to_lowercase(unwrap_or_empty(job.position))
                       \o "|" \o to_lowercase(unwrap_or_empty(job.description))
            fillers == {"jobs", "trending", "remote", "work", "career", "opportunity"}
            all_tokens == {tokens[i] : i \in 1..Len(tokens)}
            meaningful == {t \in all_tokens : t \notin fillers /\ Len(t) > 2}
        IN  result.val
               = IF call.val.args[3]
                 THEN IF meaningful # {}
                      THEN \E t \in meaningful : contains(text, t)
                      ELSE \E t \in all_tokens \ fillers : contains(text, t)
                 ELSE \A t \in all_tokens : contains(text, t)

\* C19 as it holds: the same, and in the plain mode a query without a token
\* matches no record.
C19_GeneralMatchingOfTokens ==
    (call.some /\ call.val.fn = "position_matches") =>
        LET job == call.val.args[1]
            tokens == split_whitespace(to_lowercase(call.val.args[2]))
            text == to_lowercase(unwrap_or_empty(job.position))
                       \o "|" \o to_lowercase(unwrap_or_empty(job.description))
            fillers == {"jobs", "trending", "remote", "work", "career", "opportunity"}
            all_tokens == {tokens[i] : i \in 1..Len(tokens)}
            meaningful == {t \in all_tokens : t \notin fillers /\ Len(t) > 2}
        IN  result.val
               = IF call.val.args[3]
                 THEN IF meaningful # {}
                      THEN \E t \in meaningful : contains(text, t)
                      ELSE \E t \in all_tokens \ fillers : contains(text, t)
                 ELSE all_tokens # {} /\ \A t \in all_tokens : contains(text, t)

\* In trending mode a record passed on one of three words; in another
\* behaviour it would not have passed in the plain mode
C19_Witness ==
    /\ call.some
    /\ call.val.fn = "position_matches"
    /\ call.val.args[2] = "senior go rust"
    /\ call.val.args[3]
    /\ call.val.args[1].position = Some("Rust Developer")
    /\ result.val

\* C20 (internship negation): extract_job_type does not return Internship
\* for a description without a Full-time, Part-time or Contract signal in
\* which every match of intern or internship comes at once after the phrase
\* "not hiring associate/".
C20_InternNegation ==
    (call.some /\ call.val.fn = "extract_job_type") =>
        LET text == to_lowercase(call.val.args[1])
            phrase == "not hiring associate/"
            negated(start) ==
                /\ start >= Len(phrase)
                /\ SubSeq(text, start - Len(phrase) + 1, start) = phrase
        IN  (/\ re_intern_starts(text) # {}
             /\ \A start \in re_intern_starts(text) : negated(start)
             /\ ~re_full_time(text) /\ ~re_part_time(text) /\ ~re_contract(text))
            => result.val # Some("Internship")

\* C21 (job-type filter): with a job_type filter, every record that either
\* fetcher returns has a classification, and its classification contains
\* the filter (both lower-cased) or is matched by a synonym rule: the filter
\* "full-time" by a type with "full", "part-time" by one with "part",
\* "contract" by one with "contract" or "freelance".  Without a filter the
\* records returned are the records that pass the fetcher's other tests, in
\* upstream order, all of them when the limit is not reached.
C21_JobTypeFilter ==
    (call.some /\ call.val.fn \in {"fetch_remoteok_jobs", "fetch_remoteok_jobs_with_location"}
        /\ result.val.ok) =>
        LET general == call.val.fn = "fetch_remoteok_jobs"
            args == call.val.args
            filter == IF general THEN args[4] ELSE args[5]
            returned == result.val.val
            matches(type, wanted) ==
                \/ contains(to_lowercase(type), to_lowercase(wanted))
                \/ to_lowercase(wanted) = "full-time" /\ contains(to_lowercase(type), "full")
                \/ to_lowercase(wanted) = "part-time" /\ contains(to_lowercase(type), "part")
                \/ /\ to_lowercase(wanted) = "contract"
                   /\ \/ contains(to_lowercase(type), "contract")
                      \/ contains(to_lowercase(type), "freelance")
            passes(record) ==
                IF general THEN general_matches(record, args[2], args[5])
                ELSE location_matches(record, args[2], args[4])
            passing == SelectSeq(Tail(args[1].val), passes)
        IN  IF filter.some
            THEN \A i \in 1..Len(returned) :
                    /\ returned[i].job_type.some
                    /\ matches(returned[i].job_type.val, filter.val)
            ELSE /\ Len(returned) <= Len(passing)
                 /\ \A i \in 1..Len(returned) :
                       returned[i].title = unwrap_or_empty(passing[i].position)
                 /\ Len(returned) < args[3] => Len(returned) = Len(passing)

\* The general fetch, asked for contract work, returned a record classified
\* Freelance by the synonym rule
C21_Witness ==
    /\ call.some
    /\ call.val.fn = "fetch_remoteok_jobs"
    /\ call.val.args[4] = Some("contract")
    /\ result.val.ok
    /\ \E i \in 1..Len(result.val.val) : result.val.val[i].job_type = Some("Freelance")

\* C22 (location-biased fetch): every record that
\* fetch_remoteok_jobs_with_location returns comes from an element of the
\* upstream array other than its first, the sentinel; every word of the
\* lower-cased query is in that element's lower-cased position; its
\* lower-cased description or position contains the city (the lower-cased
\* location up to its first comma, trimmed) or the whole lower-cased
\* location; and the record has the location "<location> (Remote)" and
\* remote = true.
C22_LocationFetch ==
    (call.some /\ call.val.fn = "fetch_remoteok_jobs_with_location" /\ result.val.ok) =>
        LET jobs_data == call.val.args[1].val
            words == split_whitespace(to_lowercase(call.val.args[2]))
            place == to_lowercase(call.val.args[4])
            comma == index_in(place, ",")
            town == trim(IF comma = 0 THEN place ELSE SubSeq(place, 1, comma - 1))
            returned == result.val.val
            admitted(element) ==
                LET position == to_lowercase(unwrap_or_empty(element.position))
                    description == to_lowercase(unwrap_or_empty(element.description))
                IN  /\ \A i \in 1..Len(words) : contains(position, words[i])
                    /\ \/ contains(description, town) \/ contains(position, town)
                       \/ contains(description, place) \/ contains(position, place)
        IN  \A i \in 1..Len(returned) :
                /\ returned[i].location = call.val.args[4] \o " (Remote)"
                /\ returned[i].remote
                /\ \E k \in 2..Len(jobs_data) :
                      /\ returned[i].title = unwrap_or_empty(jobs_data[k].position)
                      /\ returned[i].description = unwrap_or_empty(jobs_data[k].description)
                      /\ admitted(jobs_data[k])

\* A search without a word, in a location whose city is empty, admits every
\* element, the sentinel too: the eight records after the sentinel came back
C22_Witness ==
    /\ call.some
    /\ call.val.fn = "fetch_remoteok_jobs_with_location"
    /\ call.val.args[2] = ""
    /\ call.val.args[4] = ", Germany"
    /\ result.val.ok
    /\ Len(result.val.val) = Len(TypedBoard) - 1
    /\ \A i \in 1..Len(result.val.val) :
          /\ result.val.val[i].title # ""
          /\ result.val.val[i].location = ", Germany (Remote)"

\* C23 (one logic on both paths): whichever fetcher returns a record, its
\* job_type, salary_min and salary_max are those that the other fetcher
\* derives from the same upstream element; in particular the salary of an
\* element whose salary field is empty or missing is the range "$A - $B" or
\* "$A to $B" of its description, on both paths.
C23_SameLogicOnBothPaths ==
    (call.some /\ call.val.fn \in {"fetch_remoteok_jobs", "fetch_remoteok_jobs_with_location"}
        /\ result.val.ok) =>
        LET jobs_data == call.val.args[1].val
            returned == result.val.val
            other(element) ==
                IF call.val.fn = "fetch_remoteok_jobs"
                THEN location_job(element, 0, "")
                ELSE general_job(element, 0)
            in_description(element) ==
                range_captures(to_lowercase(unwrap_or_empty(element.description)))
        IN  \A i \in 1..Len(returned) :
                \E k \in 2..Len(jobs_data) :
                    /\ returned[i].title = unwrap_or_empty(jobs_data[k].position)
                    /\ returned[i].job_type = other(jobs_data[k]).job_type
                    /\ returned[i].salary_min = other(jobs_data[k]).salary_min
                    /\ returned[i].salary_max = other(jobs_data[k]).salary_max
                    /\ (unwrap_or_empty(jobs_data[k].salary) = ""
                            /\ in_description(jobs_data[k]).some)
                          => /\ returned[i].salary_min
                                   = parse_f64(replace(in_description(jobs_data[k]).val.min,
                                                       ",", ""))
                             /\ returned[i].salary_max
                                   = parse_f64(replace(in_description(jobs_data[k]).val.max,
                                                       ",", ""))

\* C24 (general-fetch trigger): in a call that missed the cache, once the
\* location pass is over (or was not made) the general request is issued
\* exactly when remote_only is set, or fewer records than limit are
\* accumulated, or the mode is trending, and else the call returns; the
\* accumulated count is then at most limit, so limit - accumulated does not
\* underflow; and the general fetch is asked for limit - accumulated
\* records: the call returns what the merge of that fetch gives.
C24_GeneralTrigger ==
    [][\A c \in Serial :
          LET r == req'[c].val
              decided ==
                  \/ pc[c] = "location"
                  \/ searches' = searches + 1 /\ ~hit'[c] /\ r.location = ""
              collected(response) ==
                  IF pc[c] = "location"
                  THEN extended(jobs[c],
                                fetch_remoteok_jobs_with_location(
                                    response, clean_query(r.query), r.limit, r.location,
                                    r.job_type))
                  ELSE <<>>
              wanted(accumulated) ==
                  \/ remote_flag(r.remote_only)
                  \/ Len(accumulated) < r.limit
                  \/ is_trending(r.query)
              asked(response) ==
                  fetch_remoteok_jobs(response, clean_query(r.query),
                                      U32(r.limit - Len(jobs[c])), r.job_type,
                                      is_trending(r.query))
          IN  /\ \A response \in PhaseResponses :
                    (decided /\ (pc[c] = "location" => LocationResponse(c, response)))
                       => /\ pc'[c] = "general" <=> wanted(collected(response))
                          /\ pc'[c] # "general" => pc'[c] = "done"
                          /\ pc'[c] = "general" =>
                                /\ upstream'[c] = Append(upstream[c], "general")
                                /\ Len(jobs'[c]) <= r.limit
              /\ \A response \in PhaseResponses :
                    (pc[c] = "general" /\ GeneralResponse(c, response))
                       => /\ Len(jobs[c]) <= r.limit
                          /\ ret'[c] = Some(truncate(merged(jobs[c], asked(response),
                                                            r.location, is_trending(r.query)),
                                                     r.limit))]_vars

\* C25 (fetcher bound): the list that either fetcher returns is no longer
\* than the limit it was called with, whatever the limit (0 too) and the
\* upstream array.
C25_FetcherBound ==
    (call.some /\ call.val.fn \in {"fetch_remoteok_jobs", "fetch_remoteok_jobs_with_location"}
        /\ result.val.ok)
        => Len(result.val.val) <= call.val.args[3]

\* C26 (no request coalescing): a caller whose request is not cached issues
\* the upstream requests it would issue alone, whether or not another caller
\* is fetching the same key; each caller that returns a list that is not empty writes it under
\* the key in one step, the entry being then exactly that list with the time
\* of the write; and an entry changes in no other step, removals aside, so
\* the entry in the cache is always the whole list of the caller that wrote
\* last.
C26_NoCoalescing ==
    [][/\ \A c \in Clients :
            (/\ searches' = searches + 1
             /\ req'[c].some
             /\ Begin(c, req'[c].val)
             /\ ~hit'[c])
               => /\ upstream'[c] = begin(<<>>, now, overflow_checks, req'[c].val).upstream
                  /\ pc'[c] = begin(<<>>, now, overflow_checks, req'[c].val).pc
       /\ \A c \in Clients :
            (pc[c] \in {"location", "general"} /\ pc'[c] = "done" /\ ret'[c].val # <<>>)
               => /\ key_of(req[c].val) \in DOMAIN cache'
                  /\ cache'[key_of(req[c].val)]
                        = [data |-> to_value(ret'[c].val), timestamp |-> now]
       /\ \A k \in DOMAIN cache' :
            (k \notin DOMAIN cache \/ cache'[k] # cache[k])
               => \E c \in Clients :
                     /\ pc[c] # "done" /\ pc'[c] = "done" /\ ~hit'[c]
                     /\ key_of(req'[c].val) = k
                     /\ from_value(cache'[k].data) = ret'[c].val]_vars

\* Caller a has written its list, three records, while caller b, who missed
\* the cache for the same request before that, is still fetching and has
\* collected other records
C26_Witness ==
    /\ pc["a"] = "done" /\ ~hit["a"]
    /\ pc["b"] = "general"
    /\ req["a"] = req["b"]
    /\ Len(upstream["a"]) = 2 /\ Len(upstream["b"]) = 2
    /\ key_of(req["a"].val) \in DOMAIN cache
    /\ cache[key_of(req["a"].val)] = [data |-> to_value(ret["a"].val), timestamp |-> now]
    /\ Len(ret["a"].val) = 3
    /\ jobs["b"] # <<>>
    /\ \A i \in 1..Len(jobs["b"]) : jobs["b"][i] # ret["a"].val[i]

\* C27 (upstream call discipline): a job search issues no upstream request
\* on a cache hit and at most two on a miss: at most one location-biased
\* request, first, and only for a location that is not empty, and at most
\* one general request, issued only once the location-biased request has
\* been answered; at most one request is in flight at a time; and a request
\* that failed is not issued again: after a failed location-biased request
\* the call goes on to the general request or returns, after a failed
\* general request it returns.
C27_CallDiscipline ==
    [][\A c \in Serial :
          /\ upstream'[c] \in {<<>>, <<"location">>, <<"general">>, <<"location", "general">>}
          /\ hit'[c] => upstream'[c] = <<>>
          /\ (upstream'[c] # <<>> /\ upstream'[c][1] = "location")
                => req'[c].val.location # ""
          /\ Len(outcomes'[c])
                = IF pc'[c] \in {"location", "general"} THEN Len(upstream'[c]) - 1
                  ELSE Len(upstream'[c])
          /\ (pc[c] = "location" /\ LocationResponse(c, Err))
                => /\ pc'[c] \in {"general", "done"}
                   /\ upstream'[c]
                         = IF pc'[c] = "general" THEN <<"location", "general">>
                           ELSE <<"location">>
          /\ (pc[c] = "general" /\ GeneralResponse(c, Err))
                => /\ pc'[c] = "done"
                   /\ upstream'[c] = upstream[c]]_vars

\* Both requests of a search failed, one after the other, and the search
\* returned with two requests issued
C27_Witness ==
    \E c \in Serial :
        /\ pc[c] = "done"
        /\ upstream[c] = <<"location", "general">>
        /\ outcomes[c] = <<FALSE, FALSE>>
        /\ ret[c] = Some(<<>>)

\* C28 (refresh against searches in flight): once remove_cache of a key or
\* clear_cache has returned, a search for that key that had missed the
\* cache and collected records from upstream before the removal does not,
\* when it returns, leave under the key a list with those records for the
\* cache to serve.
C28_RefreshEffective ==
    [][\A c \in Clients :
          (pc[c] = "general" /\ removed[c] /\ pc'[c] = "done")
             => LET served == get_cache(cache', now', overflow_checks', key_of(req[c].val))
                IN  ~(/\ ~served.panic
                      /\ served.ret.some
                      /\ \E i \in 1..Len(served.ret.val), j \in 1..Len(jobs[c]) :
                            served.ret.val[i] = jobs[c][j])]_vars

\* C29 (cache content): under any interleaving of two callers' searches,
\* clears, removes and the passing of time, every entry of the cache holds
\* a list that is not empty; an entry appears or changes only in the step in
\* which a search that missed the cache and fetched returns a list that is
\* not empty, the entry being then that list, under the key of its request
\* and no longer than its limit; an entry disappears only by the clear
\* route or by the refresh route on its key; and the passing of time and a
\* lookup that finds an entry expired leave the entry where it is.
C29_CacheContent ==
    [][/\ \A k \in DOMAIN cache' : from_value(cache'[k].data) # <<>>
       /\ \A k \in DOMAIN cache' :
            (k \notin DOMAIN cache \/ cache'[k] # cache[k])
               => \E c \in Clients :
                     /\ pc[c] # "done" /\ pc'[c] = "done" /\ ~hit'[c]
                     /\ upstream'[c] # <<>>
                     /\ key_of(req'[c].val) = k
                     /\ ret'[c].val # <<>>
                     /\ from_value(cache'[k].data) = ret'[c].val
                     /\ Len(cache'[k].data) <= req'[c].val.limit
       /\ \A k \in DOMAIN cache \ DOMAIN cache' : ClearAllCache \/ RefreshCache(k)
       /\ now' # now => cache' = cache
       /\ \A c \in Clients :
            (searches' = searches + 1 /\ req'[c].some /\ Begin(c, req'[c].val))
               => cache' = cache]_vars

\* A search found the entry of its key expired, fetched nothing from either
\* request, and returned: the expired entry, three records for a limit of
\* three, is still stored
C29_Witness ==
    \E c \in Clients :
        /\ pc[c] = "done" /\ ~hit[c]
        /\ outcomes[c] = <<FALSE, FALSE>>
        /\ ret[c] = Some(<<>>)
        /\ req[c].val.limit = 3
        /\ key_of(req[c].val) \in DOMAIN cache
        /\ now - cache[key_of(req[c].val)].timestamp >= CACHE_DURATION
        /\ Len(cache[key_of(req[c].val)].data) = 3

====
